---- MODULE Spec2Model ----
(***************************************************************************)
(* Workflow-Guard: the rule execution pipeline.                            *)
(*   - ExecutorService  (src/unnamed/part_001)                             *)
(*   - EvaluatorService (src/server/services/evaluator.js)                 *)
(*   - SchedulerService (src/server/services/scheduler.js)                 *)
(*   - RuleController   (src/server/controllers/logController.js:321-638)  *)
(* The specifications of the module: SpecExec drives the executor,         *)
(* SpecEval the evaluator, Spec the scheduler with the rule store,         *)
(* SpecFire one scheduled firing or one manual trigger, SpecCron one call  *)
(* of testCronExpression, SpecCtl the rule-management requests,             *)
(* SpecValidate one POST /rules/validate-action request, SpecSyntax one    *)
(* POST /rules/test-condition request, SpecUpdate PUT /rules/:id requests  *)
(* with the job timers firing, SpecRace reload() with DELETE /rules/:id    *)
(* requests; SpecExecFair is SpecExec with every awaited promise settling; *)
(* SpecRun the timers of the jobs firing while the scheduler is stopped    *)
(* and reloaded, SpecRunFair the same with every awaited promise settling; *)
(* SpecNames concurrent createRule and updateRule calls on the name        *)
(* column, SpecBulk one call of bulkImportRules.                           *)
(***************************************************************************)
EXTENDS Integers, Sequences, FiniteSets, TLC

VARIABLES
    \* ---- ExecutorService.executeActions, one call ----
    actions,      \* the action list handed to executeActions
    idx,          \* position of the for..of loop over actions (1-based)
    epc,          \* "loop" | "attempting" | "returned" | "threw"
    attempt,      \* loop variable of executeWebhook's retry loop
    results,      \* the results array built by executeActions
    dispatched,   \* indexes for which executeAction was invoked, in order
    requests,     \* every axios(requestConfig) call issued: [idx, attempt, status]
    sleeps,       \* every this.sleep(delay) call: [idx, attempt, delay]
    \* ---- EvaluatorService.evaluateRules, one call ----
    evalRules,    \* the rules handed to evaluateRules: [id, conditions]
    evalData,     \* the input record handed to evaluateRules
    evalPos,      \* position of the for..of loop over rules (1-based)
    evalPc,       \* "loop" | "returned"
    evalResults,  \* the results array built by evaluateRules
    lastCall,     \* the evaluateRule call of the last iteration and its outcome
    \* ---- SchedulerService and the rule store ----
    store,        \* table rules: rule id -> row
    jobs,         \* this.jobs: rule id -> the timer stored for it
    orphans,      \* running timers that this.jobs no longer holds
    isRunning,    \* this.isRunning
    cronEnabled,  \* config.cronEnabled
    starting,     \* number of start() calls awaiting the rows of getScheduledRules
    lastSched,    \* <<id>> if the last step was a scheduleRule call for rule id
                  \* while the job stored for id was running, else <<>>
    lastOp,       \* what the last step was, when a property refers to it:
                  \* "startRefused", a start() call made while running or
                  \* disabled; "reloading", a reload() call that issued its
                  \* query; "reloaded", the end of a reload() call during which
                  \* no other step was taken and no other start() was awaiting
                  \* rows; "stoppedWhileStarting", a stop() call made while a
                  \* start() was awaiting rows; "loadedAfterStop", the end of
                  \* the only start() awaiting rows, right after such a stop();
                  \* "loaded", the end of any other start(); else ""
    \* ---- one firing of a scheduled rule, or one manual trigger ----
    firePath,     \* "scheduled", "manual", or "none"
    firePc,       \* position in executeScheduledRule or triggerRules
    fireRules,    \* the rule of the job, or the rules getActiveRules returns
    fireData,     \* the input the rules are evaluated on
    dbOpen,       \* FALSE while the database handle is null: getDB() throws
    insertOk,     \* FALSE when the INSERT of logWorkflow fails (reported to its callback)
    firePos,      \* index into evaluationResults in the loop of triggerRules
    fireResults,  \* evaluationResults
    executed,     \* rule ids of the executeActions calls made
    workflowLogs, \* rows logWorkflow has inserted
    \* ---- one call of testCronExpression ----
    cronExpr,     \* the expression tested
    cronStart,    \* the minute at which the call is made
    cronNow,      \* the present minute
    nextDateImpl, \* what job.nextDate is in the node-cron installed
    cronPc,       \* position in testCronExpression
    nextDates,    \* nextDates
    cronOut,      \* the value returned
    dryRun,       \* <<>>, or <<the task testCronExpression created>>
    \* ---- requests to the RuleController ----
    inFlight,     \* PUT and DELETE requests whose row is written and whose
                  \* scheduler call is still to come
    lastDone,     \* the last request answered: its kind, rule id and the row
                  \* the controller went by
    content,      \* rule id -> the conditions and actions stored in its row
    lastFiring,   \* <<>>, or the last firing of a stored job: its rule id, the
                  \* conditions and actions it ran on, and those of the row
    \* ---- one POST /rules/validate-action request ----
    valAction,    \* req.body.action
    valPc,        \* "call" | "respond" | "done"
    valOut,       \* what executor.validateAction did: the errors it returned,
                  \* or that it threw
    \* ---- one POST /rules/test-condition request ----
    synCondition, \* req.body.condition
    synTestData,  \* req.body.testData: <<>> when absent, else <<record>>
    synPc,        \* "syntax" | "test" | "respond" | "done"
    synResult,    \* what testConditionSyntax returned
    synTest,      \* <<>>, or <<what createTestCondition returned>>
    \* ---- the queries of getScheduledRules in progress ----
    loadedRows,   \* the rows of the queries SQLite has run and whose callback
                  \* has not been called yet, oldest first
    \* ---- the executions of executeScheduledRule started by the timers ----
    firings,      \* one entry per firing, in the order they began: its rule
                  \* id, "awaiting" (suspended at the await of executeActions)
                  \* or "done", and the attempt its webhook is at
    \* ---- RuleService.createRule and updateRule calls, column name ----
    names,        \* table rules: rule id -> <<>> (no row) or <<its name>>
    nameCalls,    \* the calls that passed their name lookup and whose INSERT
                  \* or UPDATE is still to run
    nameOut,      \* how the call that ended in the last step ended, else ""
    \* ---- one call of RuleService.bulkImportRules ----
    bulkBatch,    \* the names of the rules of the batch
    bulkPos,      \* position of the for..of loop over the batch (1-based)
    bulkPc,       \* "idle" | "lookup" | "insert" | "resolved" | "failed" |
                  \* "imported" | "rejected"
    txn,          \* "none" | "open" (BEGIN has run) | "committed"
    bulkBefore    \* the names stored when the call was made

execVars == <<actions, idx, epc, attempt, results, dispatched, requests, sleeps>>

evalVars == <<evalRules, evalData, evalPos, evalPc, evalResults, lastCall>>

schedVars == <<store, jobs, orphans, isRunning, cronEnabled, starting, lastSched,
               lastOp>>

fireVars == <<firePath, firePc, fireRules, fireData, dbOpen, insertOk, firePos, fireResults,
              executed, workflowLogs>>

cronVars == <<cronExpr, cronStart, cronNow, nextDateImpl, cronPc, nextDates, cronOut,
              dryRun>>

ctlVars == <<inFlight, lastDone, content, lastFiring>>

valVars == <<valAction, valPc, valOut>>

synVars == <<synCondition, synTestData, synPc, synResult, synTest>>

raceVars == <<loadedRows>>

runVars == <<firings>>

nameVars == <<names, nameCalls, nameOut>>

bulkVars == <<bulkBatch, bulkPos, bulkPc, txn, bulkBefore>>

vars == <<execVars, evalVars, schedVars, fireVars, cronVars, ctlVars, valVars, synVars,
          raceVars, runVars, nameVars, bulkVars>>

-----------------------------------------------------------------------------
(* Bounds of the model *)

\* longest action list handed to executeActions
MaxActions == 2
\* largest per-action "retries" override that is enumerated
MaxRetryOverride == 3
\* longest rule list handed to evaluateRules
MaxRules == 2
\* number of rule ids
MaxRuleIds == 2
\* start() calls that may be awaiting their rows at the same time
MaxStarts == 2
\* latest minute at which testCronExpression is called
MaxClock == 11
\* minutes that may pass while one call of testCronExpression runs
MaxElapsed == 1
\* PUT and DELETE requests that may be awaiting RuleService at the same time
MaxRequests == 2
\* the distinct values the conditions and actions of a rule take
MaxContents == 2
\* firings of timers that are followed
MaxFirings == 2
\* longest batch handed to bulkImportRules
MaxBatch == 2

(* Program constants *)

\* fire times testCronExpression previews
PreviewCount == 5
\* minutes between two fire times of "0 */5 * * * *"
FiveMinutes == 5

\* config.webhookMaxRetries: parseInt(process.env.WEBHOOK_MAX_RETRIES) || 3
webhookMaxRetries == 3

Min(a, b) == IF a < b THEN a ELSE b

RECURSIVE Pow2(_)
Pow2(n) == IF n <= 0 THEN 1 ELSE 2 * Pow2(n - 1)

-----------------------------------------------------------------------------
(* ExecutorService *)

\* What the transport can answer to one request. 0 stands for a failure
\* without a response (network error, timeout): error.response is undefined.
Responses == {200, 404, 429, 500, 0}

\* axios resolves for a 2xx status and rejects otherwise (default validateStatus).
AxiosResolvesOn(status) == status >= 200 /\ status < 300

\* An action descriptor: type, whether url is set, the optional retries
\* override (<<>> when the key is absent).
ActionKinds ==
    {[type |-> "email", hasUrl |-> TRUE, retries |-> <<>>]}
    \cup {[type |-> "webhook", hasUrl |-> FALSE, retries |-> <<>>]}
    \cup {[type |-> "webhook", hasUrl |-> TRUE, retries |-> r] :
            r \in {<<>>} \cup {<<n>> : n \in 0..MaxRetryOverride}}

ActionLists == UNION {[1..n -> ActionKinds] : n \in 0..MaxActions}

\* const { ..., retries = config.webhookMaxRetries } = action
RetriesOf(action) ==
    IF action.retries = <<>> THEN webhookMaxRetries ELSE action.retries[1]

\* Math.min(1000 * Math.pow(2, attempt - 1), 10000)
BackoffDelay(att) == Min(1000 * Pow2(att - 1), 10000)

\* The catch block of executeWebhook reads startTime, which is declared with
\* const inside the try block (line 91) and is therefore not in scope in the
\* catch block (line 119): evaluating it raises a ReferenceError.
StartTimeInCatchScope == FALSE

\* A catch block in which startTime resolves and client errors are retried too.
CatchBlockRetryAll(status, att, retries) ==
    IF att < retries
    THEN [kind |-> "continue", sleep |-> <<BackoffDelay(att)>>]
    ELSE [kind |-> "continue", sleep |-> <<>>]

\* The catch block of one attempt (lines 117-144): what it does after the
\* request of attempt att was rejected with status.
CatchBlock(status, att, retries) ==
    IF ~StartTimeInCatchScope
    THEN [kind |-> "throw", sleep |-> <<>>]
    ELSE IF status >= 400 /\ status < 500 /\ status # 429
    THEN [kind |-> "break", sleep |-> <<>>]
    ELSE IF att < retries
    THEN [kind |-> "continue", sleep |-> <<BackoffDelay(att)>>]
    ELSE [kind |-> "continue", sleep |-> <<>>]

SuccessResult(i, att, status) ==
    [success |-> TRUE, idx |-> i, action |-> actions[i],
     attempt |-> att, status |-> status, error |-> ""]

FailureResult(i, msg) ==
    [success |-> FALSE, idx |-> i, action |-> actions[i],
     attempt |-> 0, status |-> 0, error |-> msg]

\* executeActions without its try/catch: the error leaves the loop.
PropagateActionError(res, i, msg) ==
    [results |-> res, threw |-> TRUE]

\* The catch of executeActions (lines 19-30): the error becomes a result.
CatchActionError(res, i, msg) ==
    [results |-> Append(res, FailureResult(i, msg)), threw |-> FALSE]

\* An error thrown by executeAction for action i reaches executeActions.
ActionThrows(i, msg) ==
    LET c == CatchActionError(results, i, msg)
    IN  /\ results' = c.results
        /\ epc' = IF c.threw THEN "threw" ELSE "loop"
        /\ idx' = IF c.threw THEN idx ELSE idx + 1
        /\ attempt' = 0

\* a switch in which every type takes the webhook case
SupportedTypeAny(type) == TRUE

\* the switch of executeAction (lines 43-48): only 'webhook' has a case
SupportedType(type) == type = "webhook"

\* the loop test of executeWebhook without its bound
LoopTestUnbounded(att, retries) == TRUE

\* the loop test of executeWebhook (line 89): attempt <= retries
LoopTest(att, retries) == att <= retries

\* One iteration of the for..of loop up to the first request: executeAction's
\* switch and the prologue of executeWebhook.
ExecuteAction ==
    /\ epc = "loop"
    /\ idx <= Len(actions)
    /\ dispatched' = Append(dispatched, idx)
    /\ UNCHANGED <<actions, requests, sleeps>>
    /\ UNCHANGED <<evalVars, schedVars, fireVars, cronVars, ctlVars, valVars, synVars, raceVars, runVars,
                   nameVars, bulkVars>>
    /\ LET a == actions[idx]
       IN  IF ~SupportedType(a.type)
           THEN ActionThrows(idx, "Unsupported action type")
           ELSE IF ~a.hasUrl
           THEN ActionThrows(idx, "Webhook URL is required")
           ELSE IF LoopTest(1, RetriesOf(a))
           THEN /\ epc' = "attempting"
                /\ attempt' = 1
                /\ UNCHANGED <<idx, results>>
           \* the loop body never runs; line 147 reads lastError.message
           ELSE ActionThrows(idx, "TypeError: lastError is undefined")

\* await axios(requestConfig) resolves: lines 92-116.
AxiosResolves ==
    /\ epc = "attempting"
    /\ \E status \in Responses :
        /\ AxiosResolvesOn(status)
        /\ requests' = Append(requests,
                [idx |-> idx, attempt |-> attempt, status |-> status])
        /\ results' = Append(results, SuccessResult(idx, attempt, status))
    /\ idx' = idx + 1
    /\ epc' = "loop"
    /\ attempt' = 0
    /\ UNCHANGED <<actions, dispatched, sleeps>>
    /\ UNCHANGED <<evalVars, schedVars, fireVars, cronVars, ctlVars, valVars, synVars, raceVars, runVars,
                   nameVars, bulkVars>>

\* await axios(requestConfig) rejects: the catch block, the backoff sleep and
\* the loop's increment and test, or the throw after the loop (line 147).
AxiosRejects ==
    /\ epc = "attempting"
    /\ \E status \in Responses :
        /\ ~AxiosResolvesOn(status)
        /\ requests' = Append(requests,
                [idx |-> idx, attempt |-> attempt, status |-> status])
        /\ LET retries == RetriesOf(actions[idx])
               c == CatchBlock(status, attempt, retries)
           IN  /\ sleeps' = IF c.sleep = <<>> THEN sleeps
                            ELSE Append(sleeps, [idx |-> idx, attempt |-> attempt,
                                                 delay |-> c.sleep[1]])
               /\ IF c.kind = "throw"
                  THEN ActionThrows(idx, "ReferenceError: startTime is not defined")
                  ELSE IF c.kind = "continue" /\ LoopTest(attempt + 1, retries)
                  THEN /\ attempt' = attempt + 1
                       /\ UNCHANGED <<idx, epc, results>>
                  ELSE ActionThrows(idx, "Webhook execution failed")
    /\ UNCHANGED <<actions, dispatched>>
    /\ UNCHANGED <<evalVars, schedVars, fireVars, cronVars, ctlVars, valVars, synVars, raceVars, runVars,
                   nameVars, bulkVars>>

\* return results (line 33)
ReturnResults ==
    /\ epc = "loop"
    /\ idx > Len(actions)
    /\ epc' = "returned"
    /\ UNCHANGED <<actions, idx, attempt, results, dispatched, requests, sleeps>>
    /\ UNCHANGED <<evalVars, schedVars, fireVars, cronVars, ctlVars, valVars, synVars, raceVars, runVars,
                   nameVars, bulkVars>>

\* the executor with no call in progress
IdleExec ==
    /\ actions = <<>>
    /\ idx = 1
    /\ epc = "returned"
    /\ attempt = 0
    /\ results = <<>>
    /\ dispatched = <<>>
    /\ requests = <<>>
    /\ sleeps = <<>>

\* the evaluator with no call in progress
IdleEval ==
    /\ evalRules = <<>>
    /\ evalData = [isObj |-> FALSE, f |-> <<>>]
    /\ evalPos = 1
    /\ evalPc = "returned"
    /\ evalResults = <<>>
    /\ lastCall = <<>>

RuleIds == 1..MaxRuleIds

\* the scheduler as constructed (scheduler.js lines 13-16), before any call
IdleSched ==
    /\ jobs = [id \in RuleIds |-> <<>>]
    /\ orphans = <<>>
    /\ isRunning = FALSE
    /\ starting = 0
    /\ lastSched = <<>>
    /\ lastOp = ""

\* no rule stored, scheduling enabled (config.cronEnabled defaults to true)
IdleStore ==
    /\ store = [id \in RuleIds |-> <<>>]
    /\ cronEnabled = TRUE

\* no firing and no trigger in progress
IdleFire ==
    /\ firePath = "none"
    /\ firePc = "idle"
    /\ fireRules = <<>>
    /\ fireData = [isObj |-> FALSE, f |-> <<>>]
    /\ dbOpen = TRUE
    /\ insertOk = TRUE
    /\ firePos = 1
    /\ fireResults = <<>>
    /\ executed = <<>>
    /\ workflowLogs = <<>>

\* no call of testCronExpression in progress
IdleCron ==
    /\ cronExpr = ""
    /\ cronStart = 0
    /\ cronNow = 0
    /\ nextDateImpl = "query"
    /\ cronPc = "returned"
    /\ nextDates = <<>>
    /\ cronOut = [valid |-> FALSE, error |-> "", nextExecutions |-> <<>>]
    /\ dryRun = <<>>

\* no request to the RuleController in progress
IdleCtl ==
    /\ inFlight = <<>>
    /\ lastDone = <<>>
    /\ content = [id \in RuleIds |-> 1]
    /\ lastFiring = <<>>

\* no POST /rules/validate-action request in progress
IdleVal ==
    /\ valAction = <<>>
    /\ valPc = "done"
    /\ valOut = [threw |-> FALSE, errors |-> {}]

\* no POST /rules/test-condition request in progress
IdleSyn ==
    /\ synCondition = "nullC"
    /\ synTestData = <<>>
    /\ synPc = "done"
    /\ synResult = [valid |-> FALSE, error |-> ""]
    /\ synTest = <<>>

\* no query of getScheduledRules run and not yet delivered
IdleRace == loadedRows = <<>>

\* no execution of executeScheduledRule has begun
IdleRun == firings = <<>>

\* no createRule or updateRule call in progress, no name stored
IdleNames ==
    /\ names = [id \in RuleIds |-> <<>>]
    /\ nameCalls = <<>>
    /\ nameOut = ""

\* no bulkImportRules call in progress
IdleBulk ==
    /\ bulkBatch = <<>>
    /\ bulkPos = 1
    /\ bulkPc = "idle"
    /\ txn = "none"
    /\ bulkBefore = [id \in RuleIds |-> <<>>]

InitExec ==
    /\ actions \in ActionLists
    /\ idx = 1
    /\ epc = "loop"
    /\ attempt = 0
    /\ results = <<>>
    /\ dispatched = <<>>
    /\ requests = <<>>
    /\ sleeps = <<>>
    /\ IdleEval
    /\ IdleStore
    /\ IdleSched
    /\ IdleFire
    /\ IdleCron
    /\ IdleCtl
    /\ IdleVal
    /\ IdleSyn
    /\ IdleRace
    /\ IdleRun
    /\ IdleNames
    /\ IdleBulk

NextExec ==
    \/ ExecuteAction
    \/ AxiosResolves
    \/ AxiosRejects
    \/ ReturnResults

SpecExec == InitExec /\ [][NextExec]_vars

-----------------------------------------------------------------------------
(* Properties of the executor (SpecExec) *)

\* The requests issued for action i, in order.
ReqsOf(i) == SelectSeq(requests, LAMBDA r : r.idx = i)

SleepsOf(i) == SelectSeq(sleeps, LAMBDA s : s.idx = i)

\* a failure the retry policy calls transient: no response, 5xx, or 429
Transient(status) == status = 0 \/ status >= 500 \/ status = 429

\* a client error other than rate limiting
ClientError(status) == status >= 400 /\ status < 500 /\ status # 429

\* C1: executeActions never throws; the results array holds one result per
\* action handled so far, in input order; and when it returns there is
\* exactly one result per action and executeAction was invoked for every
\* action, whatever the outcome of the actions before it.
C1_OneResultPerAction ==
    /\ epc # "threw"
    /\ \A i \in 1..Len(results) :
          results[i].idx = i /\ results[i].action = actions[i]
    /\ epc = "returned" =>
          /\ Len(results) = Len(actions)
          /\ dispatched = [i \in 1..Len(actions) |-> i]

\* C1 witness: a call returned in which a failed action was followed by an
\* action that was executed and succeeded.
C1_Witness ==
    /\ epc = "returned"
    /\ Len(actions) = 2
    /\ ~results[1].success
    /\ results[2].success
    /\ Len(ReqsOf(2)) = 1

\* C2 (as claimed): an action that ended in failure after a transient
\* failure has been attempted maxRetries times.
C2_TransientRetriedToMax ==
    \A i \in 1..Len(results) :
        LET rq == ReqsOf(i)
        IN  (/\ ~results[i].success
             /\ Len(rq) > 0
             /\ Transient(rq[Len(rq)].status))
            => Len(rq) = RetriesOf(actions[i])

\* the answers seen so far for action i are those of a target that answers
\* 500 to attempts 1..k and 200 afterwards
FollowsScript(i, k) ==
    \A j \in 1..Len(ReqsOf(i)) :
        ReqsOf(i)[j].status = IF j <= k THEN 500 ELSE 200

\* C3 (as claimed): against a target that fails with 5xx on attempts 1..k,
\* k < maxRetries, and then answers 2xx, the finished action is a success
\* with attempt = k + 1 after exactly k + 1 requests.
C3_SuccessAfterTransient ==
    \A i \in 1..Len(results) :
        \A k \in 0..(RetriesOf(actions[i]) - 1) :
            (Len(ReqsOf(i)) > 0 /\ FollowsScript(i, k))
            => /\ results[i].success
               /\ results[i].attempt = k + 1
               /\ Len(ReqsOf(i)) = k + 1

\* C4: a response with a status in [400,500) other than 429 ends the action:
\* no request of that action follows it, no backoff sleep is taken after it,
\* the action's result is a failure, and when it answers the first attempt
\* exactly one request was issued for the action, whatever maxRetries is.
C4_ClientErrorIsTerminal ==
    \A n \in 1..Len(requests) :
        LET r == requests[n]
        IN  ClientError(r.status) =>
              /\ \A m \in (n + 1)..Len(requests) : requests[m].idx # r.idx
              /\ \A s \in 1..Len(sleeps) :
                    ~(sleeps[s].idx = r.idx /\ sleeps[s].attempt = r.attempt)
              /\ Len(results) >= r.idx
              /\ ~results[r.idx].success
              /\ r.attempt = 1 => Len(ReqsOf(r.idx)) = 1

\* C4 witness: an action allowing several attempts got a 404 and is finished.
C4_Witness ==
    \E n \in 1..Len(requests) :
        /\ requests[n].status = 404
        /\ RetriesOf(actions[requests[n].idx]) >= 2
        /\ Len(results) >= requests[n].idx

\* C5 (as claimed): after a failed transient attempt n with n < maxRetries
\* the executor slept min(1000 * 2^(n-1), 10000) ms, and it never sleeps
\* after the final attempt.
C5_BackoffSlept ==
    /\ \A n \in 1..Len(requests) :
          LET r == requests[n]
          IN  (Transient(r.status) /\ r.attempt < RetriesOf(actions[r.idx]))
              => \E s \in 1..Len(sleeps) :
                    /\ sleeps[s].idx = r.idx
                    /\ sleeps[s].attempt = r.attempt
                    /\ sleeps[s].delay = Min(1000 * Pow2(r.attempt - 1), 10000)
    /\ \A s \in 1..Len(sleeps) :
          sleeps[s].attempt < RetriesOf(actions[sleeps[s].idx])

-----------------------------------------------------------------------------
(* JavaScript values.  A primitive is a tagged record; an object or an array
   lives in a heap (a sequence of nodes) and is referred to by its index, so
   that object identity, sharing and cycles are representable. *)

V_num(n)  == [t |-> "num",   n |-> n, s |-> ""]
V_str(s)  == [t |-> "str",   n |-> 0, s |-> s]
V_bool(b) == [t |-> "bool",  n |-> IF b THEN 1 ELSE 0, s |-> ""]
V_null    == [t |-> "null",  n |-> 0, s |-> ""]
V_undef   == [t |-> "undef", n |-> 0, s |-> ""]
V_ref(i)  == [t |-> "ref",   n |-> i, s |-> ""]
\* a fresh array produced by the engine, of the given length
V_arr(len) == [t |-> "arrval", n |-> len, s |-> ""]

\* an object with one key; an object with two keys; an array
Obj1(k, v) == [t |-> "obj", e |-> <<[k |-> k, v |-> v]>>]
Obj2(k1, v1, k2, v2) ==
    [t |-> "obj", e |-> <<[k |-> k1, v |-> v1], [k |-> k2, v |-> v2]>>]
Arr(items) ==
    [t |-> "arr", e |-> [i \in 1..Len(items) |-> [k |-> "", v |-> items[i]]]]

IsArray(h, v) == v.t = "ref" /\ h[v.n].t = "arr"

(* The conditions the model evaluates: each is a root value and its heap. *)
Conditions ==
    \* {">": [{"var": "amount"}, 1000]}
    [ gt |-> [root |-> V_ref(1), heap |-> <<
          Obj1(">", V_ref(2)),
          Arr(<<V_ref(3), V_num(1000)>>),
          Obj1("var", V_str("amount"))>>],
    \* {"==": [{"var": "a"}, {"var": "a"}]}
      eq |-> [root |-> V_ref(1), heap |-> <<
          Obj1("==", V_ref(2)),
          Arr(<<V_ref(3), V_ref(4)>>),
          Obj1("var", V_str("a")),
          Obj1("var", V_str("a"))>>],
    \* {"==": [{"var": "trigger"}, "scheduled"]}
      trig |-> [root |-> V_ref(1), heap |-> <<
          Obj1("==", V_ref(2)),
          Arr(<<V_ref(3), V_str("scheduled")>>),
          Obj1("var", V_str("trigger"))>>],
    \* {"and": [{">": [{"var": ["amount"]}, 1000]},
    \*          {"==": [{"var": "currency"}, "USD"]}]}
      both |-> [root |-> V_ref(1), heap |-> <<
          Obj1("and", V_ref(2)),
          Arr(<<V_ref(3), V_ref(7)>>),
          Obj1(">", V_ref(4)),
          Arr(<<V_ref(5), V_num(1000)>>),
          Obj1("var", V_ref(6)),
          Arr(<<V_str("amount")>>),
          Obj1("==", V_ref(8)),
          Arr(<<V_ref(9), V_str("USD")>>),
          Obj1("var", V_str("currency"))>>],
    \* {">": [1]}: a comparison with one argument
      gt1 |-> [root |-> V_ref(1), heap |-> <<
          Obj1(">", V_ref(2)),
          Arr(<<V_num(1)>>)>>],
    \* {"var": "amount"}: operator arguments that are not an array
      varTop |-> [root |-> V_ref(1), heap |-> <<
          Obj1("var", V_str("amount"))>>],
    \* {"and": [{">": [1]}, true]}: the malformed comparison is nested
      nested |-> [root |-> V_ref(1), heap |-> <<
          Obj1("and", V_ref(2)),
          Arr(<<V_ref(3), V_bool(TRUE)>>),
          Obj1(">", V_ref(4)),
          Arr(<<V_num(1)>>)>>],
    \* {"foo": [1]}: a key the engine does not know
      foo |-> [root |-> V_ref(1), heap |-> <<
          Obj1("foo", V_ref(2)),
          Arr(<<V_num(1)>>)>>],
    \* {"not": [true]}: accepted by the validator, unknown to the engine
      notOp |-> [root |-> V_ref(1), heap |-> <<
          Obj1("not", V_ref(2)),
          Arr(<<V_bool(TRUE)>>)>>],
    \* {"a": 1, "b": 2}: an object that is not an operator application
      plain |-> [root |-> V_ref(1), heap |-> <<
          Obj2("a", V_num(1), "b", V_num(2))>>],
    \* c = {"and": [c, true]}: the argument array contains the root
      cyclic |-> [root |-> V_ref(1), heap |-> <<
          Obj1("and", V_ref(2)),
          Arr(<<V_ref(1), V_bool(TRUE)>>)>>],
    \* v = {"var": "a"}; {"==": [v, v]}: one object referenced twice, no cycle
      shared |-> [root |-> V_ref(1), heap |-> <<
          Obj1("==", V_ref(2)),
          Arr(<<V_ref(3), V_ref(3)>>),
          Obj1("var", V_str("a"))>>],
    \* null, and a number: not objects
      nullC |-> [root |-> V_null, heap |-> <<>>],
      numC  |-> [root |-> V_num(5), heap |-> <<>>] ]

ConditionNames == DOMAIN Conditions

\* conditions that can be the result of JSON.parse: trees, no shared object
JsonConditionNames == ConditionNames \ {"cyclic", "shared"}

(* Input records: isObj is FALSE for an input that is not an object. *)
DataRecords ==
    { [isObj |-> TRUE,  f |-> ("amount" :> V_num(1500) @@ "currency" :> V_str("USD"))],
      [isObj |-> TRUE,  f |-> ("amount" :> V_num(500))],
      [isObj |-> TRUE,  f |-> <<>>],
      [isObj |-> TRUE,  f |-> ("a" :> V_null)],
      [isObj |-> TRUE,  f |-> ("a" :> V_undef @@ "amount" :> V_num(1500))],
      [isObj |-> FALSE, f |-> <<>>] }

-----------------------------------------------------------------------------
(* EvaluatorService: validation *)

NoError == ""
CircularError == "Circular reference detected in condition"
NotObjectError == "Condition must be a valid JSON object"

\* checkCircularReferences(obj, seen): the result carries the WeakSet, which
\* is shared by the whole traversal and never shrinks.
RECURSIVE checkCircularReferences(_, _, _)
RECURSIVE CheckValues(_, _, _, _)
CheckValues(h, es, i, seen) ==
    IF i > Len(es) THEN [ok |-> TRUE, seen |-> seen]
    ELSE LET r == checkCircularReferences(h, es[i].v, seen)
         IN  IF ~r.ok THEN r ELSE CheckValues(h, es, i + 1, r.seen)

checkCircularReferences(h, obj, seen) ==
    IF obj.t # "ref" THEN [ok |-> TRUE, seen |-> seen]
    ELSE IF obj.n \in seen THEN [ok |-> FALSE, seen |-> seen]
    ELSE CheckValues(h, h[obj.n].e, 1, seen \cup {obj.n})

validOperators ==
    {"==", "===", "!=", "!==", "<", "<=", ">", ">=",
     "and", "or", "not", "in", "!in",
     "var", "missing", "missing_some",
     "cat", "substr", "log", "log10",
     "abs", "ceil", "floor", "round",
     "max", "min", "+", "-", "*", "/", "%",
     "merge", "all", "none", "some",
     "if", "?:", "map", "reduce", "filter"}

\* validateOperatorArguments(operator, args): the message thrown, or NoError
validateOperatorArguments(h, operator, args) ==
    IF ~IsArray(h, args) THEN "requires an array of arguments"
    ELSE LET a == h[args.n].e
             len == Len(a)
         IN  IF operator \in {"==", "===", "!=", "!==", "<", "<=", ">", ">="}
             THEN IF len # 2 THEN "requires exactly 2 arguments" ELSE NoError
             ELSE IF operator \in {"and", "or"}
             THEN IF len < 2 THEN "requires at least 2 arguments" ELSE NoError
             ELSE IF operator = "not"
             THEN IF len # 1 THEN "requires exactly 1 argument" ELSE NoError
             ELSE IF operator = "var"
             THEN IF len # 1 \/ a[1].v.t # "str"
                  THEN "requires exactly 1 string argument" ELSE NoError
             ELSE IF operator \in {"in", "!in"}
             THEN IF len # 2 THEN "requires exactly 2 arguments" ELSE NoError
             ELSE NoError

\* validateJsonLogicOperators(condition): the entries in order; the arguments
\* of a recognized operator are checked by validateOperatorArguments and not
\* descended into; any other object value is validated recursively.
RECURSIVE validateJsonLogicOperators(_, _)
RECURSIVE ValidateEntries(_, _, _)
ValidateEntries(h, es, i) ==
    IF i > Len(es) THEN NoError
    ELSE LET key == es[i].k
             value == es[i].v
             r == IF key \in validOperators
                  THEN validateOperatorArguments(h, key, value)
                  ELSE IF key # "var" /\ value.t = "ref"
                  THEN validateJsonLogicOperators(h, value)
                  ELSE NoError
         IN  IF r # NoError THEN r ELSE ValidateEntries(h, es, i + 1)

validateJsonLogicOperators(h, condition) ==
    ValidateEntries(h, h[condition.n].e, 1)

\* validateCondition(condition): the message of the error thrown, or NoError
validateCondition(c) ==
    IF c.root.t # "ref" THEN NotObjectError
    ELSE IF ~checkCircularReferences(c.heap, c.root, {}).ok THEN CircularError
    ELSE validateJsonLogicOperators(c.heap, c.root)

\* the condition contains itself: some object is reachable from one of its
\* own values.  JSON.stringify throws a TypeError exactly on these.
RECURSIVE ReachableFrom(_, _, _)
ReachableFrom(h, frontier, seen) ==
    LET next == UNION {{h[j].e[i].v.n :
                            i \in {i \in 1..Len(h[j].e) : h[j].e[i].v.t = "ref"}} :
                        j \in frontier}
    IN  IF next \subseteq seen THEN seen
        ELSE ReachableFrom(h, next \ seen, seen \cup next)

HasCycle(c) ==
    \E j \in 1..Len(c.heap) : j \in ReachableFrom(c.heap, {j}, {})

-----------------------------------------------------------------------------
(* The expression engine, jsonLogic.apply of json-logic-js, for the operators
   the conditions above use: var, the comparisons, and, or, !, !!.  Any other
   single key of an object is an operation the engine does not recognize. *)

EngineOps == {"var", "==", "===", "!=", "!==", ">", ">=", "<", "<=", "!", "!!"}

Return(v) == [thrown |-> FALSE, v |-> v]
Throw     == [thrown |-> TRUE,  v |-> V_undef]

\* Boolean(value)
JsBoolean(v) ==
    CASE v.t = "num"  -> v.n # 0
      [] v.t = "str"  -> v.s # ""
      [] v.t = "bool" -> v.n = 1
      [] v.t \in {"null", "undef"} -> FALSE
      [] OTHER -> TRUE

\* jsonLogic.truthy(value): an empty array is falsy
Truthy(h, v) ==
    IF v.t = "arrval" THEN v.n > 0
    ELSE IF IsArray(h, v) THEN Len(h[v.n].e) > 0
    ELSE JsBoolean(v)

\* ToNumber on primitives; the strings of the model are not numeric (NaN)
ToNumber(v) ==
    CASE v.t = "num"  -> [nan |-> FALSE, n |-> v.n]
      [] v.t = "bool" -> [nan |-> FALSE, n |-> v.n]
      [] v.t = "null" -> [nan |-> FALSE, n |-> 0]
      [] v.t = "str" /\ v.s = "" -> [nan |-> FALSE, n |-> 0]
      [] OTHER -> [nan |-> TRUE, n |-> 0]

\* a === b
StrictEquals(a, b) ==
    /\ a.t = b.t
    /\ a.t # "arrval"
    /\ a.n = b.n
    /\ a.s = b.s

\* a == b (objects are compared with objects only, by identity)
LooseEquals(a, b) ==
    IF a.t = b.t THEN StrictEquals(a, b)
    ELSE IF a.t \in {"null", "undef"} \/ b.t \in {"null", "undef"}
    THEN a.t \in {"null", "undef"} /\ b.t \in {"null", "undef"}
    ELSE IF a.t \in {"num", "str", "bool"} /\ b.t \in {"num", "str", "bool"}
    THEN /\ ~ToNumber(a).nan
         /\ ~ToNumber(b).nan
         /\ ToNumber(a).n = ToNumber(b).n
    ELSE FALSE

\* a < b on the numeric values (false when either side is NaN)
LessThan(a, b) ==
    /\ ~ToNumber(a).nan
    /\ ~ToNumber(b).nan
    /\ ToNumber(a).n < ToNumber(b).n

LessOrEqual(a, b) ==
    /\ ~ToNumber(a).nan
    /\ ~ToNumber(b).nan
    /\ ToNumber(a).n <= ToNumber(b).n

\* a lookup in which a missing field yields undefined
VarLookupUndefined(a, d) ==
    IF a.t = "str" /\ a.s \in DOMAIN d THEN d[a.s] ELSE V_undef

\* operations.var: a missing or undefined field yields null
VarLookup(a, d) ==
    IF a.t \in {"undef", "null"} \/ (a.t = "str" /\ a.s = "")
    THEN [t |-> "data", n |-> 0, s |-> ""]
    ELSE IF a.t = "str" /\ a.s \in DOMAIN d /\ d[a.s].t # "undef"
    THEN d[a.s]
    ELSE V_null

Arg(a, i) == IF i <= Len(a) THEN a[i] ELSE V_undef

\* operations[op].apply(data, values)
Operation(op, a, d) ==
    CASE op = "var" -> VarLookup(Arg(a, 1), d)
      [] op = "=="  -> V_bool(LooseEquals(Arg(a, 1), Arg(a, 2)))
      [] op = "!="  -> V_bool(~LooseEquals(Arg(a, 1), Arg(a, 2)))
      [] op = "===" -> V_bool(StrictEquals(Arg(a, 1), Arg(a, 2)))
      [] op = "!==" -> V_bool(~StrictEquals(Arg(a, 1), Arg(a, 2)))
      [] op = ">"   -> V_bool(LessThan(Arg(a, 2), Arg(a, 1)))
      [] op = ">="  -> V_bool(LessOrEqual(Arg(a, 2), Arg(a, 1)))
      [] op = "<"   -> V_bool(LessThan(Arg(a, 1), Arg(a, 2)))
      [] op = "<="  -> V_bool(LessOrEqual(Arg(a, 1), Arg(a, 2)))
      [] op = "!"   -> V_bool(~JsBoolean(Arg(a, 1)))
      [] op = "!!"  -> V_bool(JsBoolean(Arg(a, 1)))

\* jsonLogic.apply(logic, data)
RECURSIVE Apply(_, _, _)
RECURSIVE ApplyAll(_, _, _, _, _)
RECURSIVE ApplyAnd(_, _, _, _, _)
RECURSIVE ApplyOr(_, _, _, _, _)

\* values.map(val => apply(val, data)): the first throw ends it
ApplyAll(h, vals, i, d, acc) ==
    IF i > Len(vals) THEN [thrown |-> FALSE, vs |-> acc]
    ELSE LET r == Apply(h, vals[i], d)
         IN  IF r.thrown THEN [thrown |-> TRUE, vs |-> acc]
             ELSE ApplyAll(h, vals, i + 1, d, Append(acc, r.v))

\* "and": the first falsy value, else the last value
ApplyAnd(h, vals, i, d, current) ==
    IF i > Len(vals) THEN Return(current)
    ELSE LET r == Apply(h, vals[i], d)
         IN  IF r.thrown THEN r
             ELSE IF ~Truthy(h, r.v) THEN r
             ELSE ApplyAnd(h, vals, i + 1, d, r.v)

\* "or": the first truthy value, else the last value
ApplyOr(h, vals, i, d, current) ==
    IF i > Len(vals) THEN Return(current)
    ELSE LET r == Apply(h, vals[i], d)
         IN  IF r.thrown THEN r
             ELSE IF Truthy(h, r.v) THEN r
             ELSE ApplyOr(h, vals, i + 1, d, r.v)

Apply(h, logic, d) ==
    IF logic.t # "ref" THEN Return(logic)
    ELSE LET node == h[logic.n]
         IN  IF node.t = "arr"
             THEN LET r == ApplyAll(h, [i \in 1..Len(node.e) |-> node.e[i].v], 1, d, <<>>)
                  IN  IF r.thrown THEN Throw ELSE Return(V_arr(Len(node.e)))
             \* not is_logic: the object is returned as it is
             ELSE IF Len(node.e) # 1 THEN Return(logic)
             ELSE LET op == node.e[1].k
                      raw == node.e[1].v
                      values == IF IsArray(h, raw)
                                THEN [i \in 1..Len(h[raw.n].e) |-> h[raw.n].e[i].v]
                                ELSE <<raw>>
                  IN  IF op = "and" THEN ApplyAnd(h, values, 1, d, V_undef)
                      ELSE IF op = "or" THEN ApplyOr(h, values, 1, d, V_undef)
                      ELSE LET args == ApplyAll(h, values, 1, d, <<>>)
                           IN  IF args.thrown THEN Throw
                               ELSE IF op \in EngineOps
                               THEN Return(Operation(op, args.vs, d))
                               \* throw new Error("Unrecognized operation " + op)
                               ELSE Throw

-----------------------------------------------------------------------------
(* EvaluatorService: evaluation *)

\* preprocessData(data): {} for a non-object, undefined fields become null
preprocessData(data) ==
    IF ~data.isObj THEN <<>>
    ELSE [key \in DOMAIN data.f |->
            IF data.f[key].t = "undef" THEN V_null ELSE data.f[key]]

\* an evaluateRule whose catch block lets the error go on
RethrowEvaluation(c, err) ==
    [kind |-> "throw", value |-> FALSE, error |-> err]

\* a catch block that lets a broken condition match
CatchEvaluationFailOpen(c, err) ==
    [kind |-> "return", value |-> TRUE, error |-> err]

\* The catch block of evaluateRule (lines 34-46).  Its log call evaluates
\* JSON.stringify(condition), which throws a TypeError on a condition that
\* contains itself; otherwise the block returns false.
CatchEvaluation(c, err) ==
    IF HasCycle(c)
    THEN [kind |-> "throw", value |-> FALSE,
          error |-> "Converting circular structure to JSON"]
    ELSE [kind |-> "return", value |-> FALSE, error |-> err]

\* evaluateRule(condition, data): it returns value, or throws error
evaluateRule(c, data) ==
    LET err == validateCondition(c)
    IN  IF err # NoError THEN CatchEvaluation(c, err)
        ELSE LET r == Apply(c.heap, c.root, preprocessData(data))
             IN  IF r.thrown THEN CatchEvaluation(c, "Unrecognized operation")
                 \* line 27: JSON.stringify(condition) inside the try block
                 ELSE IF HasCycle(c)
                 THEN CatchEvaluation(c, "Converting circular structure to JSON")
                 ELSE [kind |-> "return", value |-> JsBoolean(r.v), error |-> NoError]

\* the entry evaluateRules pushes for a rule, given the outcome of evaluateRule
ResultEntry(rule, out) ==
    IF out.kind = "return"
    THEN [ruleId |-> rule.id, matched |-> out.value, hasError |-> FALSE,
          error |-> NoError, conditions |-> rule.conditions]
    ELSE [ruleId |-> rule.id, matched |-> FALSE, hasError |-> TRUE,
          error |-> out.error, conditions |-> rule.conditions]

\* one iteration of the for..of loop of evaluateRules (lines 55-87)
EvaluateRulesStep ==
    /\ evalPc = "loop"
    /\ evalPos <= Len(evalRules)
    /\ LET rule == evalRules[evalPos]
           out == evaluateRule(Conditions[rule.conditions], evalData)
       IN  /\ lastCall' = <<[conditions |-> rule.conditions, data |-> evalData,
                             out |-> out]>>
           /\ evalResults' = Append(evalResults, ResultEntry(rule, out))
    /\ evalPos' = evalPos + 1
    /\ UNCHANGED <<evalRules, evalData, evalPc>>
    /\ UNCHANGED <<execVars, schedVars, fireVars, cronVars, ctlVars, valVars, synVars, raceVars, runVars,
                   nameVars, bulkVars>>

\* return results (line 89)
EvaluateRulesReturn ==
    /\ evalPc = "loop"
    /\ evalPos > Len(evalRules)
    /\ evalPc' = "returned"
    /\ UNCHANGED <<evalRules, evalData, evalPos, evalResults, lastCall>>
    /\ UNCHANGED <<execVars, schedVars, fireVars, cronVars, ctlVars, valVars, synVars, raceVars, runVars,
                   nameVars, bulkVars>>

\* the rule lists handed to evaluateRules: rule i has id i
RuleLists ==
    UNION {[1..n -> ConditionNames] : n \in 0..MaxRules}

InitEval ==
    /\ \E cs \in RuleLists :
          evalRules = [i \in 1..Len(cs) |-> [id |-> i, conditions |-> cs[i]]]
    /\ evalData \in DataRecords
    /\ evalPos = 1
    /\ evalPc = "loop"
    /\ evalResults = <<>>
    /\ lastCall = <<>>
    /\ IdleExec
    /\ IdleStore
    /\ IdleSched
    /\ IdleFire
    /\ IdleCron
    /\ IdleCtl
    /\ IdleVal
    /\ IdleSyn
    /\ IdleRace
    /\ IdleRun
    /\ IdleNames
    /\ IdleBulk

NextEval ==
    \/ EvaluateRulesStep
    \/ EvaluateRulesReturn

SpecEval == InitEval /\ [][NextEval]_vars

-----------------------------------------------------------------------------
(* Properties of the evaluator (SpecEval) *)

\* the engine raises a runtime error on a condition that passed validation
EngineThrows(c, data) ==
    /\ validateCondition(c) = NoError
    /\ Apply(c.heap, c.root, preprocessData(data)).thrown

\* C7: for a condition that passes validateCondition and any input record,
\* evaluateRule returns a boolean and does not throw; when the expression
\* engine raises a runtime error the value returned is false.
C7_ValidatedNeverThrows ==
    lastCall # <<>> =>
        LET call == lastCall[1]
            c == Conditions[call.conditions]
        IN  validateCondition(c) = NoError =>
              /\ call.out.kind = "return"
              /\ call.out.value \in BOOLEAN
              /\ EngineThrows(c, call.data) => call.out.value = FALSE

\* C7 witness: evaluateRule was called on {"foo": [1]}, which passes
\* validation and makes the engine throw, and it returned false.
C7_Witness ==
    /\ lastCall # <<>>
    /\ lastCall[1].conditions = "foo"
    /\ EngineThrows(Conditions["foo"], lastCall[1].data)
    /\ lastCall[1].out.kind = "return"
    /\ lastCall[1].out.value = FALSE

\* C8 (as claimed): a condition that contains a cycle is rejected by
\* validateCondition with the circular-reference error, and evaluateRule on
\* it returns false without letting an exception escape.
C8_CyclicDegradesToFalse ==
    lastCall # <<>> =>
        LET call == lastCall[1]
            c == Conditions[call.conditions]
        IN  HasCycle(c) =>
              /\ validateCondition(c) = CircularError
              /\ call.out.kind = "return"
              /\ call.out.value = FALSE

\* C9 (as claimed): evaluateRules returns one entry per rule in input order;
\* the entry of a rule whose condition fails validation has matched = false
\* and an error marker; every entry is what evaluating that rule alone gives.
C9_BatchMarksMalformed ==
    /\ \A k \in 1..Len(evalResults) :
          /\ evalResults[k].ruleId = evalRules[k].id
          /\ evalResults[k] =
                ResultEntry(evalRules[k],
                    evaluateRule(Conditions[evalRules[k].conditions], evalData))
          /\ validateCondition(Conditions[evalRules[k].conditions]) # NoError
             => (~evalResults[k].matched /\ evalResults[k].hasError)
    /\ evalPc = "returned" => Len(evalResults) = Len(evalRules)

-----------------------------------------------------------------------------
(* SchedulerService and the rule store it reads *)

\* rule.schedule: null (no schedule), a valid six-field cron expression, or a
\* string cron.validate rejects
NoSchedule == ""
ValidCron == "0 */5 * * * *"
InvalidCron == "every day"
Schedules == {NoSchedule, ValidCron, InvalidCron}

\* cron.validate(expression)
cronValidate(expression) == expression = ValidCron

\* the rule objects handed to the scheduler
RuleArgs == [id : RuleIds, schedule : Schedules]

\* the rows of table rules: <<>> when there is no row with that id
Rows == {<<>>} \cup {<<r>> : r \in [schedule : Schedules, isActive : BOOLEAN]}

\* ruleService.getScheduledRules():
\* SELECT * FROM rules WHERE isActive = 1 AND schedule IS NOT NULL
RECURSIVE RowsFrom(_, _)
RowsFrom(rows, id) ==
    IF id > MaxRuleIds THEN <<>>
    ELSE (IF rows[id] # <<>> /\ rows[id][1].isActive
             /\ rows[id][1].schedule # NoSchedule
          THEN <<[id |-> id, schedule |-> rows[id][1].schedule]>>
          ELSE <<>>) \o RowsFrom(rows, id + 1)

getScheduledRules(rows) == RowsFrom(rows, 1)

\* a job.stop() that leaves the timer as it is
StopTimerLeavesRunning(t) == t

\* job.stop()
StopTimer(t) == [t EXCEPT !.running = FALSE]

\* The timer stored under a key that Map.set, Map.delete or Map.clear
\* overwrites or removes: if it is still running, nothing refers to it any
\* more and it goes on firing.
Dropped(js, id) ==
    IF js[id] # <<>> /\ js[id][1].running THEN <<js[id][1]>> ELSE <<>>

\* scheduleRule that stores the new job without stopping the existing one
scheduleRuleNoStop(st, rule) ==
    IF rule.schedule = NoSchedule \/ ~cronValidate(rule.schedule) THEN st
    ELSE [jobs |-> [st.jobs EXCEPT ![rule.id] = <<[rule |-> rule, running |-> TRUE]>>],
          orphans |-> st.orphans \o Dropped(st.jobs, rule.id)]

\* scheduleRule(rule) on st = [jobs, orphans] (lines 98-143).  It runs to
\* completion without yielding: its body holds no await.
scheduleRule(st, rule) ==
    IF rule.schedule = NoSchedule THEN st
    ELSE LET stopped ==
                 IF st.jobs[rule.id] # <<>>
                 THEN [st.jobs EXCEPT ![rule.id] = <<StopTimer(@[1])>>]
                 ELSE st.jobs
         IN  IF ~cronValidate(rule.schedule)
             \* the error is caught and logged; the stopped job stays stored
             THEN [st EXCEPT !.jobs = stopped]
             ELSE [jobs |-> [stopped EXCEPT ![rule.id] =
                                <<[rule |-> rule, running |-> TRUE]>>],
                   orphans |-> st.orphans \o Dropped(stopped, rule.id)]

\* unscheduleRule(ruleId) (lines 148-156)
unscheduleRule(st, ruleId) ==
    IF st.jobs[ruleId] = <<>> THEN st
    ELSE LET stopped == [st.jobs EXCEPT ![ruleId] = <<StopTimer(@[1])>>]
         IN  [jobs |-> [stopped EXCEPT ![ruleId] = <<>>],
              orphans |-> st.orphans \o Dropped(stopped, ruleId)]

\* updateScheduledRule(rule) (lines 282-288)
updateScheduledRule(st, rule) ==
    IF rule.schedule # NoSchedule THEN scheduleRule(st, rule)
    ELSE unscheduleRule(st, rule.id)

\* a loop that the first rule with an invalid expression ends
RECURSIVE ScheduleAllAbort(_, _, _)
ScheduleAllAbort(st, rules, i) ==
    IF i > Len(rules) \/ ~cronValidate(rules[i].schedule) THEN st
    ELSE ScheduleAllAbort(scheduleRule(st, rules[i]), rules, i + 1)

\* The for..of loop of loadScheduledRules over the rows loaded (lines 80-82).
\* Each await in it is on a promise scheduleRule has already settled, so the
\* iterations run as consecutive microtasks of the callback that delivered
\* the rows: no request handler, timer or other callback runs in between.
RECURSIVE ScheduleAll(_, _, _)
ScheduleAll(st, rules, i) ==
    IF i > Len(rules) THEN st
    ELSE ScheduleAll(scheduleRule(st, rules[i]), rules, i + 1)

\* the timers Map.clear() drops while they are running
RECURSIVE DroppedAll(_, _)
DroppedAll(js, id) ==
    IF id > MaxRuleIds THEN <<>>
    ELSE Dropped(js, id) \o DroppedAll(js, id + 1)

\* stop() on [jobs, orphans, isRunning] (lines 54-71)
stop(st) ==
    IF ~st.isRunning THEN st
    ELSE LET stopped == [id \in RuleIds |->
                            IF st.jobs[id] # <<>> THEN <<StopTimer(st.jobs[id][1])>>
                            ELSE <<>>]
         IN  [jobs |-> [id \in RuleIds |-> <<>>],
              orphans |-> st.orphans \o DroppedAll(stopped, 1),
              isRunning |-> FALSE]

\* getJobsStatus() (lines 252-264): one entry per key of the job table
getJobsStatus ==
    {[ruleId |-> id, running |-> jobs[id][1].running] :
        id \in {i \in RuleIds : jobs[i] # <<>>}}

SchedState == [jobs |-> jobs, orphans |-> orphans]

\* a start() without its two guards
StartCallUnguarded ==
    /\ starting < MaxStarts
    /\ starting' = starting + 1
    /\ lastSched' = <<>>
    /\ lastOp' = IF isRunning \/ ~cronEnabled THEN "startRefused" ELSE ""
    /\ UNCHANGED <<store, jobs, orphans, isRunning, cronEnabled>>
    /\ UNCHANGED <<execVars, evalVars, fireVars, cronVars, ctlVars, valVars, synVars, raceVars, runVars,
                   nameVars, bulkVars>>

\* start() up to its first await (lines 21-33 and 76-78): the guards, then
\* the query of getScheduledRules is issued.
StartCall ==
    /\ starting < MaxStarts
    /\ IF isRunning \/ ~cronEnabled
       THEN UNCHANGED starting
       ELSE starting' = starting + 1
    /\ lastSched' = <<>>
    /\ lastOp' = IF isRunning \/ ~cronEnabled THEN "startRefused" ELSE ""
    /\ UNCHANGED <<store, jobs, orphans, isRunning, cronEnabled>>
    /\ UNCHANGED <<execVars, evalVars, fireVars, cronVars, ctlVars, valVars, synVars, raceVars, runVars,
                   nameVars, bulkVars>>

\* the rest of a start() call: the query runs on the rows the store holds
\* (rows committed since the call are seen, rows committed after this step
\* are not), then the loop of loadScheduledRules, then isRunning = true
\* (lines 78-86 and 34-42)
StartLoaded ==
    /\ starting > 0
    /\ LET st == ScheduleAll(SchedState, getScheduledRules(store), 1)
       IN  /\ jobs' = st.jobs
           /\ orphans' = st.orphans
    /\ isRunning' = TRUE
    /\ starting' = starting - 1
    /\ lastSched' = <<>>
    /\ lastOp' = IF lastOp = "reloading" /\ starting = 1 THEN "reloaded"
                 ELSE IF lastOp = "stoppedWhileStarting" /\ starting = 1
                 THEN "loadedAfterStop"
                 ELSE "loaded"
    /\ UNCHANGED <<store, cronEnabled>>
    /\ UNCHANGED <<execVars, evalVars, fireVars, cronVars, ctlVars, valVars, synVars, raceVars, runVars,
                   nameVars, bulkVars>>

\* the query of a start() call is rejected: loadScheduledRules and start
\* log the error and throw it on (lines 87-92, 43-48)
StartFailed ==
    /\ starting > 0
    /\ starting' = starting - 1
    /\ lastSched' = <<>>
    /\ lastOp' = ""
    /\ UNCHANGED <<store, jobs, orphans, isRunning, cronEnabled>>
    /\ UNCHANGED <<execVars, evalVars, fireVars, cronVars, ctlVars, valVars, synVars, raceVars, runVars,
                   nameVars, bulkVars>>

\* stop()
Stop ==
    /\ LET st == stop([jobs |-> jobs, orphans |-> orphans, isRunning |-> isRunning])
       IN  /\ jobs' = st.jobs
           /\ orphans' = st.orphans
           /\ isRunning' = st.isRunning
    /\ lastSched' = <<>>
    /\ lastOp' = IF starting > 0 THEN "stoppedWhileStarting" ELSE ""
    /\ UNCHANGED <<store, cronEnabled, starting>>
    /\ UNCHANGED <<execVars, evalVars, fireVars, cronVars, ctlVars, valVars, synVars, raceVars, runVars,
                   nameVars, bulkVars>>

\* reload() up to the first await of the start() it calls (lines 269-277)
Reload ==
    /\ starting < MaxStarts
    /\ LET st == stop([jobs |-> jobs, orphans |-> orphans, isRunning |-> isRunning])
       IN  /\ jobs' = st.jobs
           /\ orphans' = st.orphans
           /\ isRunning' = st.isRunning
           /\ IF st.isRunning \/ ~cronEnabled
              THEN UNCHANGED starting
              ELSE starting' = starting + 1
    /\ lastSched' = <<>>
    /\ lastOp' = IF cronEnabled THEN "reloading" ELSE ""
    /\ UNCHANGED <<store, cronEnabled>>
    /\ UNCHANGED <<execVars, evalVars, fireVars, cronVars, ctlVars, valVars, synVars, raceVars, runVars,
                   nameVars, bulkVars>>

\* a call scheduler.scheduleRule(rule)
ScheduleRule ==
    \E rule \in RuleArgs :
        LET st == scheduleRule(SchedState, rule)
        IN  /\ jobs' = st.jobs
            /\ orphans' = st.orphans
            /\ lastSched' = IF jobs[rule.id] # <<>> /\ jobs[rule.id][1].running
                            THEN <<rule.id>> ELSE <<>>
            /\ lastOp' = ""
            /\ UNCHANGED <<store, isRunning, cronEnabled, starting>>
            /\ UNCHANGED <<execVars, evalVars, fireVars, cronVars, ctlVars, valVars, synVars, raceVars, runVars,
                   nameVars, bulkVars>>

\* a call scheduler.updateScheduledRule(rule)
UpdateScheduledRule ==
    \E rule \in RuleArgs :
        LET st == updateScheduledRule(SchedState, rule)
        IN  /\ jobs' = st.jobs
            /\ orphans' = st.orphans
            /\ lastSched' = <<>>
            /\ lastOp' = ""
            /\ UNCHANGED <<store, isRunning, cronEnabled, starting>>
            /\ UNCHANGED <<execVars, evalVars, fireVars, cronVars, ctlVars, valVars, synVars, raceVars, runVars,
                   nameVars, bulkVars>>

\* a call scheduler.unscheduleRule(ruleId)
UnscheduleRule ==
    \E ruleId \in RuleIds :
        LET st == unscheduleRule(SchedState, ruleId)
        IN  /\ jobs' = st.jobs
            /\ orphans' = st.orphans
            /\ lastSched' = <<>>
            /\ lastOp' = ""
            /\ UNCHANGED <<store, isRunning, cronEnabled, starting>>
            /\ UNCHANGED <<execVars, evalVars, fireVars, cronVars, ctlVars, valVars, synVars, raceVars, runVars,
                   nameVars, bulkVars>>

\* the INSERT of ruleService.createRule commits (isActive defaults to 1)
InsertRule ==
    \E id \in RuleIds, schedule \in Schedules :
        /\ store[id] = <<>>
        /\ store' = [store EXCEPT ![id] = <<[schedule |-> schedule, isActive |-> TRUE]>>]
        /\ lastSched' = <<>>
        /\ lastOp' = ""
        /\ UNCHANGED <<jobs, orphans, isRunning, cronEnabled, starting>>
        /\ UNCHANGED <<execVars, evalVars, fireVars, cronVars, ctlVars, valVars, synVars, raceVars, runVars,
                   nameVars, bulkVars>>

\* the UPDATE of ruleService.updateRule commits
UpdateRow ==
    \E id \in RuleIds, schedule \in Schedules, isActive \in BOOLEAN :
        /\ store[id] # <<>>
        /\ store' = [store EXCEPT ![id] = <<[schedule |-> schedule, isActive |-> isActive]>>]
        /\ lastSched' = <<>>
        /\ lastOp' = ""
        /\ UNCHANGED <<jobs, orphans, isRunning, cronEnabled, starting>>
        /\ UNCHANGED <<execVars, evalVars, fireVars, cronVars, ctlVars, valVars, synVars, raceVars, runVars,
                   nameVars, bulkVars>>

\* the DELETE of ruleService.deleteRule commits
DeleteRow ==
    \E id \in RuleIds :
        /\ store[id] # <<>>
        /\ store' = [store EXCEPT ![id] = <<>>]
        /\ lastSched' = <<>>
        /\ lastOp' = ""
        /\ UNCHANGED <<jobs, orphans, isRunning, cronEnabled, starting>>
        /\ UNCHANGED <<execVars, evalVars, fireVars, cronVars, ctlVars, valVars, synVars, raceVars, runVars,
                   nameVars, bulkVars>>

Init ==
    /\ store \in [RuleIds -> Rows]
    /\ cronEnabled \in BOOLEAN
    /\ IdleSched
    /\ IdleExec
    /\ IdleEval
    /\ IdleFire
    /\ IdleCron
    /\ IdleCtl
    /\ IdleVal
    /\ IdleSyn
    /\ IdleRace
    /\ IdleRun
    /\ IdleNames
    /\ IdleBulk

Next ==
    \/ StartCall
    \/ StartLoaded
    \/ StartFailed
    \/ Stop
    \/ Reload
    \/ ScheduleRule
    \/ UpdateScheduledRule
    \/ UnscheduleRule
    \/ InsertRule
    \/ UpdateRow
    \/ DeleteRow

Spec == Init /\ [][Next]_vars

-----------------------------------------------------------------------------
(* Properties of the scheduler (Spec) *)

\* the started timers created for rule id: the stored one, if it is running,
\* and the running ones nothing refers to any more
StartedTimers(id) ==
    (IF jobs[id] # <<>> /\ jobs[id][1].running THEN 1 ELSE 0)
    + Len(SelectSeq(orphans, LAMBDA t : t.rule.id = id))

C12_StartRefusedNoEffect ==
    [][lastOp' = "startRefused" =>
          UNCHANGED <<jobs, orphans, isRunning, starting, store>>]_vars

\* C12 witness: start() was just called on a running scheduler that holds a
\* running job.
C12_Witness ==
    /\ lastOp = "startRefused"
    /\ isRunning
    /\ cronEnabled
    /\ \E id \in RuleIds : jobs[id] # <<>> /\ jobs[id][1].running

\* C12 witness, disabled: start() was just called with scheduling disabled.
C12_WitnessDisabled ==
    /\ lastOp = "startRefused"
    /\ ~cronEnabled
    /\ ~isRunning

\* the rows start() has just loaded: the store does not change in that step
LoadedRules == getScheduledRules(store)

\* C13: when a start() call ends, the scheduler is running, every rule
\* loaded with a valid expression has a started job made from it, and no job
\* was made for a rule loaded with an invalid expression: such a rule does
\* not end the loop.
C13_InvalidRuleSkipped ==
    lastOp \in {"loaded", "reloaded", "loadedAfterStop"} =>
        /\ isRunning
        /\ \A k \in 1..Len(LoadedRules) :
              LET rule == LoadedRules[k]
              IN  IF cronValidate(rule.schedule)
                  THEN jobs[rule.id] = <<[rule |-> rule, running |-> TRUE]>>
                  ELSE jobs[rule.id] = <<>> \/ ~jobs[rule.id][1].running

\* C13 witness: a start() call has ended that loaded a rule with an invalid
\* expression and, after it, a rule with a valid one; only the second has a
\* job.
C13_Witness ==
    /\ lastOp = "loaded"
    /\ isRunning
    /\ Len(LoadedRules) = 2
    /\ ~cronValidate(LoadedRules[1].schedule)
    /\ cronValidate(LoadedRules[2].schedule)
    /\ jobs[LoadedRules[1].id] = <<>>
    /\ jobs[LoadedRules[2].id] # <<>> /\ jobs[LoadedRules[2].id][1].running

\* C19 (as claimed): when a reload() call ends, the scheduler is running and
\* the job table holds a started job for each rule getScheduledRules
\* returned whose expression is valid, and nothing for any other rule id,
\* whatever the state was in which reload() was called.
C19_ReloadMatchesStore ==
    lastOp = "reloaded" =>
        /\ isRunning
        /\ \A id \in RuleIds :
              IF \E k \in 1..Len(LoadedRules) :
                    LoadedRules[k].id = id /\ cronValidate(LoadedRules[k].schedule)
              THEN jobs[id] # <<>> /\ jobs[id][1].running
              ELSE jobs[id] = <<>>

\* C20 (as claimed): when stop() returns, the job table is empty, no timer
\* is running and the scheduler is not running.
C20_StopStopsEverything ==
    [][Stop => (/\ ~isRunning'
                /\ jobs' = [id \in RuleIds |-> <<>>]
                /\ orphans' = <<>>)]_vars


-----------------------------------------------------------------------------
(* A firing of a scheduled rule (SchedulerService.executeScheduledRule) and a
   manual trigger (RuleController.triggerRules) *)

\* generateScheduledInput(rule) (scheduler.js lines 232-247); the rows of
\* table rules have no column scheduledInput
generateScheduledInput(rule) ==
    [isObj |-> TRUE,
     f |-> ("timestamp" :> V_str("2024-01-01T00:05:00.000Z")
            @@ "trigger" :> V_str("scheduled")
            @@ "ruleId" :> V_num(rule.id)
            @@ "ruleName" :> V_str("rule")) ]

\* evaluateRules(rules, data) (evaluator.js lines 52-90), as one call
RECURSIVE EvaluateFrom(_, _, _)
EvaluateFrom(rules, data, i) ==
    IF i > Len(rules) THEN <<>>
    ELSE <<ResultEntry(rules[i], evaluateRule(Conditions[rules[i].conditions], data))>>
         \o EvaluateFrom(rules, data, i + 1)

evaluateRules(rules, data) == EvaluateFrom(rules, data, 1)

\* the row logWorkflow(ruleId, matched, input) inserts (logger.js lines 66-97);
\* the call throws when getDB() finds the database closed
WorkflowLog(ruleId, matched, input) ==
    [ruleId |-> ruleId, matched |-> matched, input |-> input]

\* the object literal {} given as input by the catch block of a firing
EmptyInput == [isObj |-> TRUE, f |-> <<>>]

\* logWorkflow(ruleId, matched, input) with the database handle set: the
\* INSERT is issued and the call returns; a failure of the INSERT is given
\* to the callback, which logs it (lines 79-86)
logWorkflow(logs, ruleId, matched, input) ==
    IF insertOk THEN Append(logs, WorkflowLog(ruleId, matched, input)) ELSE logs

\* a firing that takes the job of its rule out of the table when it fails
JobsAfterFiringDisables(js, rule, failed) ==
    IF failed THEN [js EXCEPT ![rule.id] = <<>>] ELSE js

\* this.jobs after executeScheduledRule(rule): no statement of lines 161-227
\* refers to it, or to a timer
JobsAfterFiring(js, rule, failed) == js

\* The timer of a job fires: executeScheduledRule(rule) up to its await of
\* executeActions, or to its end (scheduler.js lines 161-227).
ExecuteScheduledRule ==
    /\ firePc = "fire"
    /\ LET rule == fireRules[1]
           inputData == generateScheduledInput(rule)
           out == evaluateRule(Conditions[rule.conditions], inputData)
       IN  /\ fireData' = inputData
           /\ jobs' = JobsAfterFiring(jobs, rule,
                          out.kind = "throw" \/ ~dbOpen)
           /\ IF out.kind = "throw" \/ ~dbOpen
              \* the catch block (lines 214-226) logs the firing as not
              \* matched; with the database handle null logWorkflow throws
              \* again and the promise of the firing is rejected
              THEN /\ workflowLogs' = IF dbOpen
                                      THEN logWorkflow(workflowLogs, rule.id, FALSE, EmptyInput)
                                      ELSE workflowLogs
                   /\ firePc' = IF dbOpen THEN "done" ELSE "failed"
                   /\ UNCHANGED executed
              ELSE /\ workflowLogs' = logWorkflow(workflowLogs, rule.id, out.value, inputData)
                   /\ IF out.value
                      THEN /\ executed' = Append(executed, rule.id)
                           /\ firePc' = "actions"
                      ELSE /\ UNCHANGED executed
                           /\ firePc' = "done"
    /\ UNCHANGED <<firePath, fireRules, dbOpen, insertOk, firePos, fireResults>>
    /\ UNCHANGED <<store, orphans, isRunning, cronEnabled, starting, lastSched, lastOp>>
    /\ UNCHANGED <<execVars, evalVars, cronVars, ctlVars, valVars, synVars, raceVars, runVars,
                   nameVars, bulkVars>>

\* executeActions resolves in a firing; it never rejects (lines 186-201)
ScheduledActionsReturn ==
    /\ firePc = "actions"
    /\ firePc' = "done"
    /\ UNCHANGED <<firePath, fireRules, fireData, dbOpen, insertOk, firePos, fireResults,
                   executed, workflowLogs>>
    /\ UNCHANGED <<execVars, evalVars, schedVars, cronVars, ctlVars, valVars, synVars, raceVars, runVars,
                   nameVars, bulkVars>>

\* POST /trigger: triggerRules up to its await of getActiveRules
\* (logController.js lines 455-460)
TriggerRules ==
    /\ firePc = "trigger"
    /\ firePc' = "query"
    /\ UNCHANGED <<firePath, fireRules, fireData, dbOpen, insertOk, firePos, fireResults,
                   executed, workflowLogs>>
    /\ UNCHANGED <<execVars, evalVars, schedVars, cronVars, ctlVars, valVars, synVars, raceVars, runVars,
                   nameVars, bulkVars>>

\* getActiveRules resolves with fireRules: the empty-list response, or
\* evaluateRules on all of them (lines 462-480)
ActiveRulesLoaded ==
    /\ firePc = "query"
    /\ dbOpen
    /\ IF Len(fireRules) = 0
       THEN /\ firePc' = "done"
            /\ UNCHANGED fireResults
       ELSE /\ firePc' = "loop"
            /\ fireResults' = evaluateRules(fireRules, fireData)
    /\ UNCHANGED <<firePath, fireRules, fireData, dbOpen, insertOk, firePos, executed,
                   workflowLogs>>
    /\ UNCHANGED <<execVars, evalVars, schedVars, cronVars, ctlVars, valVars, synVars, raceVars, runVars,
                   nameVars, bulkVars>>

\* getActiveRules rejects: the error goes to next(error) (lines 525-527)
ActiveRulesFailed ==
    /\ firePc = "query"
    /\ firePc' = "failed"
    /\ UNCHANGED <<firePath, fireRules, fireData, dbOpen, insertOk, firePos, fireResults,
                   executed, workflowLogs>>
    /\ UNCHANGED <<execVars, evalVars, schedVars, cronVars, ctlVars, valVars, synVars, raceVars, runVars,
                   nameVars, bulkVars>>

\* one iteration of the loop over evaluationResults, up to its await of
\* executeActions or to its end (lines 486-512)
TriggerStep ==
    /\ firePc = "loop"
    /\ firePos <= Len(fireResults)
    /\ LET result == fireResults[firePos]
       IN  IF result.matched
           THEN /\ workflowLogs' = logWorkflow(workflowLogs, result.ruleId, TRUE, fireData)
                /\ executed' = Append(executed, result.ruleId)
                /\ firePc' = "awaitActions"
                /\ UNCHANGED firePos
           ELSE /\ workflowLogs' = logWorkflow(workflowLogs, result.ruleId, FALSE, fireData)
                /\ firePos' = firePos + 1
                /\ UNCHANGED <<executed, firePc>>
    /\ UNCHANGED <<firePath, fireRules, fireData, dbOpen, insertOk, fireResults>>
    /\ UNCHANGED <<execVars, evalVars, schedVars, cronVars, ctlVars, valVars, synVars, raceVars, runVars,
                   nameVars, bulkVars>>

\* executeActions resolves in a trigger (lines 497-507)
TriggerActionsReturn ==
    /\ firePc = "awaitActions"
    /\ firePc' = "loop"
    /\ firePos' = firePos + 1
    /\ UNCHANGED <<firePath, fireRules, fireData, dbOpen, insertOk, fireResults, executed,
                   workflowLogs>>
    /\ UNCHANGED <<execVars, evalVars, schedVars, cronVars, ctlVars, valVars, synVars, raceVars, runVars,
                   nameVars, bulkVars>>

\* res.json after the loop (lines 515-524)
TriggerRespond ==
    /\ firePc = "loop"
    /\ firePos > Len(fireResults)
    /\ firePc' = "done"
    /\ UNCHANGED <<firePath, fireRules, fireData, dbOpen, insertOk, firePos, fireResults,
                   executed, workflowLogs>>
    /\ UNCHANGED <<execVars, evalVars, schedVars, cronVars, ctlVars, valVars, synVars, raceVars, runVars,
                   nameVars, bulkVars>>

\* the bodies POST /trigger accepts as data: JSON objects (Joi.object())
TriggerData ==
    {d \in DataRecords : d.isObj /\ \A key \in DOMAIN d.f : d.f[key].t # "undef"}

\* the rules getActiveRules returns: their conditions come from JSON.parse
ActiveRuleLists ==
    UNION {[1..n -> JsonConditionNames] : n \in 0..MaxRules}

\* one firing of a job whose rule was handed to scheduleRule, or one trigger
InitFire ==
    /\ \/ /\ firePath = "scheduled"
          /\ firePc = "fire"
          /\ \E id \in RuleIds, c \in ConditionNames :
                /\ fireRules = <<[id |-> id, conditions |-> c]>>
                \* the timer that fires is the started one of the job stored
                /\ jobs = [i \in RuleIds |->
                             IF i = id
                             THEN <<[rule |-> [id |-> id, schedule |-> ValidCron],
                                     running |-> TRUE]>>
                             ELSE <<>>]
          /\ fireData = [isObj |-> FALSE, f |-> <<>>]
          /\ isRunning \in BOOLEAN
       \/ /\ firePath = "manual"
          /\ firePc = "trigger"
          /\ \E cs \in ActiveRuleLists :
                fireRules = [i \in 1..Len(cs) |-> [id |-> i, conditions |-> cs[i]]]
          /\ fireData \in TriggerData
          /\ jobs = [i \in RuleIds |-> <<>>]
          /\ isRunning = FALSE
    /\ dbOpen \in BOOLEAN
    /\ insertOk \in BOOLEAN
    /\ firePos = 1
    /\ fireResults = <<>>
    /\ executed = <<>>
    /\ workflowLogs = <<>>
    /\ orphans = <<>>
    /\ starting = 0
    /\ lastSched = <<>>
    /\ lastOp = ""
    /\ IdleStore
    /\ IdleExec
    /\ IdleEval
    /\ IdleCron
    /\ IdleCtl
    /\ IdleVal
    /\ IdleSyn
    /\ IdleRace
    /\ IdleRun
    /\ IdleNames
    /\ IdleBulk

NextFire ==
    \/ ExecuteScheduledRule
    \/ ScheduledActionsReturn
    \/ TriggerRules
    \/ ActiveRulesLoaded
    \/ ActiveRulesFailed
    \/ TriggerStep
    \/ TriggerActionsReturn
    \/ TriggerRespond

SpecFire == InitFire /\ [][NextFire]_vars

-----------------------------------------------------------------------------
(* Properties of firings and triggers (SpecFire) *)

\* the input rule is evaluated on in the firing or trigger in progress
InputOf(rule) ==
    IF firePath = "scheduled" THEN generateScheduledInput(rule) ELSE fireData

\* the condition passes validation and the engine, without raising an error,
\* gives a truthy value for it
HoldsOn(c, data) ==
    /\ validateCondition(c) = NoError
    /\ LET r == Apply(c.heap, c.root, preprocessData(data))
       IN  ~r.thrown /\ JsBoolean(r.v)

\* C6: in a firing of a scheduled rule and in a manual trigger alike,
\* executeActions is called only for a rule of that firing or trigger whose
\* condition passed validation, raised no error in evaluation and evaluated
\* to a truthy value on the input of the firing or trigger.
C6_FailClosed ==
    \A k \in 1..Len(executed) :
        \E i \in 1..Len(fireRules) :
            /\ fireRules[i].id = executed[k]
            /\ HoldsOn(Conditions[fireRules[i].conditions], InputOf(fireRules[i]))

\* C6 witness: a trigger over two rules has responded; the condition of one
\* failed validation and the other held, and executeActions was called for
\* the second only.
C6_Witness ==
    /\ firePath = "manual"
    /\ firePc = "done"
    /\ Len(fireRules) = 2
    /\ validateCondition(Conditions[fireRules[1].conditions]) # NoError
    /\ HoldsOn(Conditions[fireRules[2].conditions], fireData)
    /\ executed = <<fireRules[2].id>>

\* C6 witness, scheduled path: the firing of a rule whose condition makes
\* evaluateRule throw has ended with a not-matched log row and no action.
C6_WitnessScheduled ==
    /\ firePath = "scheduled"
    /\ firePc = "done"
    /\ evaluateRule(Conditions[fireRules[1].conditions], fireData).kind = "throw"
    /\ workflowLogs = <<WorkflowLog(fireRules[1].id, FALSE, EmptyInput)>>
    /\ executed = <<>>

\* the rule of the firing in progress
FiredRule == fireRules[1]

\* the firing has ended: the promise of executeScheduledRule is settled
FiringEnded == firePath = "scheduled" /\ firePc \in {"done", "failed"}

\* C14 (as claimed): whatever fails inside a firing, executeScheduledRule
\* completes normally, and a firing in which an error was raised is recorded
\* as a not-matched execution record when the INSERT succeeds.
C14_NoErrorEscapesFiring ==
    firePath = "scheduled" =>
        /\ firePc # "failed"
        /\ (/\ firePc = "done"
            /\ insertOk
            /\ evaluateRule(Conditions[FiredRule.conditions],
                            generateScheduledInput(FiredRule)).kind = "throw")
           => workflowLogs = <<WorkflowLog(FiredRule.id, FALSE, EmptyInput)>>

\* C15 (as claimed): in a firing whose condition holds, executeActions is
\* called for the rule even when the execution record could not be written,
\* whether the INSERT failed or getDB() threw.
C15_LogFailureKeepsPath ==
    (/\ FiringEnded
     /\ HoldsOn(Conditions[FiredRule.conditions], generateScheduledInput(FiredRule)))
    => executed = <<FiredRule.id>>

-----------------------------------------------------------------------------
(* SchedulerService.testCronExpression (scheduler.js lines 293-323).  Time
   is counted in minutes. *)

\* minutes between two fire times of an expression the model uses
PeriodOf(expression) ==
    IF expression = ValidCron THEN FiveMinutes ELSE 1

\* "0 * * * * *": every minute
EveryMinute == "0 * * * * *"

TestedExpressions == {ValidCron, EveryMinute, InvalidCron}

\* cron.validate on the expressions tested
cronValidates(expression) == expression \in {ValidCron, EveryMinute}

\* The fire time that follows minute now.
NextFireAfter(expression, now) ==
    ((now \div PeriodOf(expression)) + 1) * PeriodOf(expression)

\* job.nextDate() is called on the task that cron.schedule returned, with no
\* argument and with nothing done to the task between two calls.  node-cron
\* is not part of the sources: either its task has no such method (the call
\* is a TypeError), or the method answers the fire time that follows the
\* present moment.
NextDateImpls == {"absent", "query"}

\* job.nextDate() (line 307) when the method exists
NextDate(expression, now, sofar) == NextFireAfter(expression, now)

\* the options of a task that starts when it is created (node-cron's default)
DryRunOptionsDefault == [scheduled |-> TRUE]

\* the options given to cron.schedule at line 304
DryRunOptions == [scheduled |-> FALSE]

\* cron.schedule(expression, fn, options): the task created, started at once
\* unless options.scheduled is false
CronSchedule(expression, options) ==
    [rule |-> [id |-> 0, schedule |-> expression], running |-> options.scheduled]

\* lines 295-300 and 303-304: validation, then the task is created
TestCronValidate ==
    /\ cronPc = "call"
    /\ IF ~cronValidates(cronExpr)
       THEN /\ cronPc' = "returned"
            /\ cronOut' = [valid |-> FALSE, error |-> "Invalid cron expression format",
                           nextExecutions |-> <<>>]
            /\ UNCHANGED dryRun
       ELSE /\ cronPc' = "loop"
            /\ dryRun' = <<CronSchedule(cronExpr, DryRunOptions)>>
            /\ UNCHANGED cronOut
    /\ UNCHANGED <<cronExpr, cronNow, cronStart, nextDateImpl, nextDates>>
    /\ UNCHANGED <<execVars, evalVars, schedVars, fireVars, ctlVars, valVars, synVars, raceVars, runVars,
                   nameVars, bulkVars>>

\* one iteration of the loop (lines 306-309); a TypeError goes to the catch
\* block (lines 317-322)
TestCronNextDate ==
    /\ cronPc = "loop"
    /\ Len(nextDates) < PreviewCount
    /\ IF nextDateImpl = "absent"
       THEN /\ cronPc' = "returned"
            /\ cronOut' = [valid |-> FALSE, error |-> "job.nextDate is not a function",
                           nextExecutions |-> <<>>]
            /\ UNCHANGED nextDates
       ELSE /\ nextDates' = Append(nextDates, NextDate(cronExpr, cronNow, nextDates))
            /\ UNCHANGED <<cronPc, cronOut>>
    /\ UNCHANGED <<cronExpr, cronNow, cronStart, nextDateImpl, dryRun>>
    /\ UNCHANGED <<execVars, evalVars, schedVars, fireVars, ctlVars, valVars, synVars, raceVars, runVars,
                   nameVars, bulkVars>>

\* job.stop() and the return (lines 311-316)
TestCronReturn ==
    /\ cronPc = "loop"
    /\ Len(nextDates) = PreviewCount
    /\ cronPc' = "returned"
    /\ cronOut' = [valid |-> TRUE, error |-> "", nextExecutions |-> nextDates]
    /\ dryRun' = <<StopTimer(dryRun[1])>>
    /\ UNCHANGED <<cronExpr, cronNow, cronStart, nextDateImpl, nextDates>>
    /\ UNCHANGED <<execVars, evalVars, schedVars, fireVars, ctlVars, valVars, synVars, raceVars, runVars,
                   nameVars, bulkVars>>

\* the clock passes to the next minute while the call is running
CronTick ==
    /\ cronPc \in {"call", "loop"}
    /\ cronNow < cronStart + MaxElapsed
    /\ cronNow' = cronNow + 1
    /\ UNCHANGED <<cronExpr, cronStart, nextDateImpl, cronPc, nextDates, cronOut, dryRun>>
    /\ UNCHANGED <<execVars, evalVars, schedVars, fireVars, ctlVars, valVars, synVars, raceVars, runVars,
                   nameVars, bulkVars>>

\* the scheduler when testCronExpression is called: as constructed, or
\* started, with a job for the first rule or with none
SchedulersTested ==
    {[jobs |-> [id \in RuleIds |-> <<>>], isRunning |-> b] : b \in BOOLEAN}
    \cup {[jobs |-> [id \in RuleIds |->
                       IF id = 1
                       THEN <<[rule |-> [id |-> 1, schedule |-> ValidCron],
                               running |-> TRUE]>>
                       ELSE <<>>],
           isRunning |-> TRUE]}

InitCron ==
    /\ cronExpr \in TestedExpressions
    /\ cronStart \in 0..MaxClock
    /\ cronNow = cronStart
    /\ nextDateImpl \in NextDateImpls
    /\ cronPc = "call"
    /\ nextDates = <<>>
    /\ cronOut = [valid |-> FALSE, error |-> "", nextExecutions |-> <<>>]
    /\ dryRun = <<>>
    /\ IdleStore
    /\ \E sch \in SchedulersTested :
          /\ jobs = sch.jobs
          /\ isRunning = sch.isRunning
    /\ orphans = <<>>
    /\ starting = 0
    /\ lastSched = <<>>
    /\ lastOp = ""
    /\ IdleExec
    /\ IdleEval
    /\ IdleFire
    /\ IdleCtl
    /\ IdleVal
    /\ IdleSyn
    /\ IdleRace
    /\ IdleRun
    /\ IdleNames
    /\ IdleBulk

NextCron ==
    \/ TestCronValidate
    \/ TestCronNextDate
    \/ TestCronReturn
    \/ CronTick

SpecCron == InitCron /\ [][NextCron]_vars

-----------------------------------------------------------------------------
(* Properties of testCronExpression (SpecCron) *)

\* C11 (as claimed): for the expression that fires every five minutes,
\* testCronExpression returns valid = true with exactly five fire times, all
\* after the time of the call, each exactly five minutes after the one
\* before it.
C11_FiveFireTimesOnePeriodApart ==
    (cronPc = "returned" /\ cronExpr = ValidCron) =>
        /\ cronOut.valid
        /\ Len(cronOut.nextExecutions) = PreviewCount
        /\ \A i \in 1..Len(cronOut.nextExecutions) :
              cronOut.nextExecutions[i] > cronStart
        /\ \A i \in 2..Len(cronOut.nextExecutions) :
              cronOut.nextExecutions[i] = cronOut.nextExecutions[i - 1] + FiveMinutes

\* C32: a call of testCronExpression, for a valid or an invalid expression,
\* changes neither the job table, nor a registered timer, nor the running
\* flag, and the task it creates for the preview is never started.
C32_TestCronLeavesSchedulerAlone ==
    [][/\ UNCHANGED <<jobs, orphans, isRunning, starting>>
       /\ dryRun' # <<>> => ~dryRun'[1].running]_vars

\* C32 witness: a call for a valid expression has returned its preview on a
\* running scheduler that holds a started job; the task of the preview
\* exists and is not started.
C32_Witness ==
    /\ cronPc = "returned"
    /\ cronOut.valid
    /\ isRunning
    /\ jobs[1] # <<>> /\ jobs[1][1].running
    /\ dryRun # <<>> /\ ~dryRun[1].running

\* C32 witness, invalid: a call for an invalid expression has returned on
\* such a scheduler and no task was created.
C32_WitnessInvalid ==
    /\ cronPc = "returned"
    /\ cronExpr = InvalidCron
    /\ ~cronOut.valid
    /\ isRunning
    /\ jobs[1] # <<>> /\ jobs[1][1].running
    /\ dryRun = <<>>

-----------------------------------------------------------------------------
(* RuleController: createRule, updateRule and deleteRule, with the calls they
   make to RuleService and to the scheduler (logController.js lines 335-431) *)

\* the values of the columns conditions and actions of a row, taken together
Contents == 1..MaxContents

\* the rule object RuleService hands out for a row (getRuleById,
\* getScheduledRules): its id, schedule, conditions and actions
RuleObject(id, schedule) == [id |-> id, schedule |-> schedule, content |-> content[id]]

\* updateData of RuleController.updateRule / RuleService.updateRule, as far
\* as the scheduler is concerned: a field is <<>> when it is undefined
UpdateData ==
    { u \in [schedule : {<<>>} \cup {<<sch>> : sch \in Schedules},
             isActive : {<<>>, <<TRUE>>, <<FALSE>>},
             content : {<<>>} \cup {<<c>> : c \in Contents}] :
        u.schedule # <<>> \/ u.isActive # <<>> \/ u.content # <<>> }

\* the row after UPDATE rules SET ... (ruleService.js lines 161-182)
UpdatedRow(row, u) ==
    [schedule |-> IF u.schedule # <<>> THEN u.schedule[1] ELSE row.schedule,
     isActive |-> IF u.isActive # <<>> THEN u.isActive[1] ELSE row.isActive]

\* a request taken out of those awaiting RuleService
WithoutRequest(k) ==
    [i \in 1..(Len(inFlight) - 1) |-> IF i < k THEN inFlight[i] ELSE inFlight[i + 1]]

\* POST /rules: RuleService.createRule inserts the row (schedule || null,
\* isActive 1 by default) and the controller answers 201; the scheduler is
\* not called (logController.js lines 335-347)
CreateRule ==
    \E id \in RuleIds, schedule \in Schedules, c \in Contents :
        /\ store[id] = <<>>
        /\ store' = [store EXCEPT ![id] = <<[schedule |-> schedule, isActive |-> TRUE]>>]
        /\ content' = [content EXCEPT ![id] = c]
        /\ lastDone' = <<[op |-> "create", id |-> id,
                          rule |-> [schedule |-> schedule, isActive |-> TRUE]]>>
        /\ UNCHANGED <<jobs, orphans, isRunning, cronEnabled, starting, lastSched,
                       lastOp, inFlight, lastFiring>>
        /\ UNCHANGED <<execVars, evalVars, fireVars, cronVars, valVars, synVars, raceVars, runVars,
                   nameVars, bulkVars>>

\* PUT /rules/:id up to the UPDATE of RuleService.updateRule
\* (ruleService.js lines 134-182); a rule that does not exist is a 404
UpdateRuleCommit ==
    \E id \in RuleIds, u \in UpdateData :
        /\ Len(inFlight) < MaxRequests
        /\ store[id] # <<>>
        /\ store' = [store EXCEPT ![id] = <<UpdatedRow(store[id][1], u)>>]
        /\ content' = IF u.content # <<>>
                      THEN [content EXCEPT ![id] = u.content[1]] ELSE content
        /\ inFlight' = Append(inFlight, [op |-> "update", id |-> id])
        /\ UNCHANGED <<jobs, orphans, isRunning, cronEnabled, starting, lastSched,
                       lastOp, lastDone, lastFiring>>
        /\ UNCHANGED <<execVars, evalVars, fireVars, cronVars, valVars, synVars, raceVars, runVars,
                   nameVars, bulkVars>>

\* the rest of PUT /rules/:id: getRuleById reads the row, then the
\* controller calls the scheduler (ruleService.js line 186,
\* logController.js lines 396-401).  If the row is gone getRuleById throws
\* and the scheduler is not called.
UpdateRuleRespond ==
    \E k \in 1..Len(inFlight) :
        /\ inFlight[k].op = "update"
        /\ inFlight' = WithoutRequest(k)
        /\ LET id == inFlight[k].id
           IN  IF store[id] = <<>>
               THEN UNCHANGED <<jobs, orphans, lastDone>>
               ELSE LET row == store[id][1]
                        rule == RuleObject(id, row.schedule)
                        st == IF rule.schedule # NoSchedule
                              THEN updateScheduledRule(SchedState, rule)
                              ELSE unscheduleRule(SchedState, id)
                    IN  /\ jobs' = st.jobs
                        /\ orphans' = st.orphans
                        /\ lastDone' = <<[op |-> "update", id |-> id, rule |-> row]>>
        /\ UNCHANGED <<store, isRunning, cronEnabled, starting, lastSched, lastOp>>
        /\ UNCHANGED <<content, lastFiring>>
        /\ UNCHANGED <<execVars, evalVars, fireVars, cronVars, valVars, synVars, raceVars, runVars,
                   nameVars, bulkVars>>

\* DELETE /rules/:id up to the DELETE of RuleService.deleteRule
\* (ruleService.js lines 207-211)
DeleteRuleCommit ==
    \E id \in RuleIds :
        /\ Len(inFlight) < MaxRequests
        /\ store[id] # <<>>
        /\ store' = [store EXCEPT ![id] = <<>>]
        /\ content' = [content EXCEPT ![id] = 1]
        /\ inFlight' = Append(inFlight, [op |-> "delete", id |-> id])
        /\ UNCHANGED <<jobs, orphans, isRunning, cronEnabled, starting, lastSched,
                       lastOp, lastDone, lastFiring>>
        /\ UNCHANGED <<execVars, evalVars, fireVars, cronVars, valVars, synVars, raceVars, runVars,
                   nameVars, bulkVars>>

\* the rest of DELETE /rules/:id: scheduler.unscheduleRule(id)
\* (logController.js lines 421-422)
DeleteRuleRespond ==
    \E k \in 1..Len(inFlight) :
        /\ inFlight[k].op = "delete"
        /\ inFlight' = WithoutRequest(k)
        /\ LET id == inFlight[k].id
               st == unscheduleRule(SchedState, id)
           IN  /\ jobs' = st.jobs
               /\ orphans' = st.orphans
               /\ lastDone' = <<[op |-> "delete", id |-> id,
                                 rule |-> [schedule |-> NoSchedule, isActive |-> FALSE]]>>
        /\ UNCHANGED <<store, isRunning, cronEnabled, starting, lastSched, lastOp>>
        /\ UNCHANGED <<content, lastFiring>>
        /\ UNCHANGED <<execVars, evalVars, fireVars, cronVars, valVars, synVars, raceVars, runVars,
                   nameVars, bulkVars>>

\* The timer of the job stored for a rule fires: the callback given to
\* cron.schedule calls executeScheduledRule(rule) on the rule object it was
\* created with (scheduler.js lines 116-118), which evaluates rule.conditions
\* and executes rule.actions of that object (lines 179, 187).
JobFires ==
    \E id \in RuleIds :
        /\ jobs[id] # <<>>
        /\ jobs[id][1].running
        /\ lastFiring' = <<[id |-> id, used |-> jobs[id][1].rule.content,
                            stored |-> IF store[id] # <<>> THEN <<content[id]>> ELSE <<>>]>>
        /\ UNCHANGED <<inFlight, lastDone, content>>
        /\ UNCHANGED <<execVars, evalVars, schedVars, fireVars, cronVars, valVars, synVars, raceVars, runVars,
                   nameVars, bulkVars>>

\* the rows of getScheduledRules as rule objects
ScheduledRuleObjects ==
    LET rows == getScheduledRules(store)
    IN  [i \in 1..Len(rows) |-> RuleObject(rows[i].id, rows[i].schedule)]

\* the application after its start: start() has loaded the rules of the
\* store and the scheduler is running (logger.js lines 191-202)
InitCtl ==
    /\ store \in [RuleIds -> Rows]
    /\ cronEnabled = TRUE
    /\ inFlight = <<>>
    /\ lastDone = <<>>
    /\ content = [id \in RuleIds |-> 1]
    /\ lastFiring = <<>>
    /\ LET st == ScheduleAll([jobs |-> [id \in RuleIds |-> <<>>], orphans |-> <<>>],
                             ScheduledRuleObjects, 1)
       IN  /\ jobs = st.jobs
           /\ orphans = st.orphans
    /\ isRunning = TRUE
    /\ starting = 0
    /\ lastSched = <<>>
    /\ lastOp = ""
    /\ IdleExec
    /\ IdleEval
    /\ IdleFire
    /\ IdleCron
    /\ IdleVal
    /\ IdleSyn
    /\ IdleRace
    /\ IdleRun
    /\ IdleNames
    /\ IdleBulk

NextCtl ==
    \/ CreateRule
    \/ UpdateRuleCommit
    \/ UpdateRuleRespond
    \/ DeleteRuleCommit
    \/ DeleteRuleRespond

SpecCtl == InitCtl /\ [][NextCtl]_vars

\* the running application with PUT /rules/:id requests and the timers of
\* the stored jobs firing
NextUpdate ==
    \/ UpdateRuleCommit
    \/ UpdateRuleRespond
    \/ JobFires

SpecUpdate == InitCtl /\ [][NextUpdate]_vars

-----------------------------------------------------------------------------
(* Properties of the rule-management requests (SpecCtl) *)

\* no timer made for rule id can fire
NeverFires(id) ==
    /\ jobs[id] = <<>>
    /\ \A k \in 1..Len(orphans) : orphans[k].rule.id # id

\* C16 (as claimed): when a DELETE /rules/:id request, or a PUT /rules/:id
\* request that leaves the rule inactive, has been answered, the job table
\* holds no job for that rule id and no timer of the rule is running.
C16_DeletedOrInactiveHasNoJob ==
    lastDone # <<>> =>
        LET done == lastDone[1]
        IN  (done.op = "delete" \/ (done.op = "update" /\ ~done.rule.isActive))
            => NeverFires(done.id)

\* C26 (as claimed): a firing of the job of a stored rule runs on the
\* conditions and actions that the row of the rule holds at the time of the
\* firing.
C26_FiringUsesCommittedRule ==
    lastFiring # <<>> =>
        (lastFiring[1].stored # <<>> => lastFiring[1].used = lastFiring[1].stored[1])

\* C17 (as claimed): when POST /rules has created an active rule with a
\* valid schedule while the scheduler is running, the job table holds a
\* started job for that rule id.
C17_CreatedRuleIsScheduled ==
    lastDone # <<>> =>
        LET done == lastDone[1]
        IN  (/\ done.op = "create"
             /\ isRunning
             /\ done.rule.isActive
             /\ cronValidate(done.rule.schedule))
            => (jobs[done.id] # <<>> /\ jobs[done.id][1].running)

-----------------------------------------------------------------------------
(* POST /rules/validate-action: RuleController.validateAction and
   ExecutorService.validateAction (logController.js lines 581-598,
   src/unnamed/part_001 lines 222-264) *)

\* String.prototype.toUpperCase on the method names of the model
ToUpperCase(s) ==
    CASE s = "post"  -> "POST"
      [] s = "Get"   -> "GET"
      [] s = "trace" -> "TRACE"
      [] OTHER -> s

\* isValidUrl(string): new URL(string) does not throw
isValidUrl(string) == string \in {"https://example.com/hook", "http://localhost:3000/x"}

AllowedMethods == {"GET", "POST", "PUT", "PATCH", "DELETE"}

TimeoutError == "Timeout must be a number between 1000 and 30000 ms"
RetriesError == "Retries must be a number between 0 and 10"

\* the test of line 240 on action.timeout
TimeoutRejected(timeout) ==
    JsBoolean(timeout)
    /\ (timeout.t # "num" \/ timeout.n < 1000 \/ timeout.n > 30000)

\* the test of line 244 on action.retries
RetriesRejected(retries) ==
    JsBoolean(retries)
    /\ (retries.t # "num" \/ retries.n < 0 \/ retries.n > 10)

\* validateAction(action) (lines 222-250): the errors returned, or threw.
\* action.method.toUpperCase is not a function when method is not a string.
validateAction(action) ==
    IF action.type.s = "webhook" /\ JsBoolean(action.method) /\ action.method.t # "str"
    THEN [threw |-> TRUE, errors |-> {}]
    ELSE [threw |-> FALSE, errors |->
            (IF ~JsBoolean(action.type) THEN {"Action type is required"} ELSE {})
            \cup
            (IF action.type.s # "webhook" THEN {}
             ELSE (IF ~JsBoolean(action.url) THEN {"Webhook URL is required"}
                   ELSE IF ~isValidUrl(action.url.s) THEN {"Invalid webhook URL"}
                   ELSE {})
                  \cup
                  (IF JsBoolean(action.method)
                      /\ ToUpperCase(action.method.s) \notin AllowedMethods
                   THEN {"Invalid HTTP method"} ELSE {})
                  \cup
                  (IF TimeoutRejected(action.timeout) THEN {TimeoutError} ELSE {})
                  \cup
                  (IF RetriesRejected(action.retries) THEN {RetriesError} ELSE {}))]

\* const errors = executor.validateAction(action) (logController.js line 585)
ValidateActionCall ==
    /\ valPc = "call"
    /\ valOut' = validateAction(valAction)
    /\ valPc' = "respond"
    /\ UNCHANGED valAction
    /\ UNCHANGED <<execVars, evalVars, schedVars, fireVars, cronVars, ctlVars, synVars, raceVars, runVars,
                   nameVars, bulkVars>>

\* res.json({...}) or, from the catch block, next(error) (lines 587-596)
ValidateActionRespond ==
    /\ valPc = "respond"
    /\ valPc' = "done"
    /\ UNCHANGED <<valAction, valOut>>
    /\ UNCHANGED <<execVars, evalVars, schedVars, fireVars, cronVars, ctlVars, synVars, raceVars, runVars,
                   nameVars, bulkVars>>

\* the action objects of the requests: an absent key reads as undefined
ActionBodies ==
    [type : {V_undef, V_str("webhook"), V_str("email")},
     url : {V_undef, V_str("https://example.com/hook"), V_str("not a url")},
     method : {V_undef, V_str("post"), V_str("trace"), V_num(5)},
     timeout : {V_undef, V_num(0), V_num(999), V_num(1000), V_num(30000),
                V_num(30001), V_str("5000")},
     retries : {V_undef, V_num(0), V_num(10), V_num(11), V_num(-1), V_str("3")}]

InitValidate ==
    /\ valAction \in ActionBodies
    /\ valPc = "call"
    /\ valOut = [threw |-> FALSE, errors |-> {}]
    /\ IdleExec
    /\ IdleEval
    /\ IdleStore
    /\ IdleSched
    /\ IdleFire
    /\ IdleCron
    /\ IdleCtl
    /\ IdleSyn
    /\ IdleRace
    /\ IdleRun
    /\ IdleNames
    /\ IdleBulk

NextValidate ==
    \/ ValidateActionCall
    \/ ValidateActionRespond

SpecValidate == InitValidate /\ [][NextValidate]_vars

-----------------------------------------------------------------------------
(* Properties of action validation (SpecValidate) *)

\* C21 (as claimed): validateAction does not throw, and for a webhook action
\* it reports the timeout error exactly when a timeout is present and is
\* not a number of [1000, 30000], and the retries error exactly when a
\* retries value is present and is not a number of [0, 10].
C21_RangesReported ==
    valPc # "call" =>
        /\ ~valOut.threw
        /\ valAction.type.s = "webhook" =>
              /\ TimeoutError \in valOut.errors
                    <=> (/\ valAction.timeout.t # "undef"
                         /\ ~(/\ valAction.timeout.t = "num"
                              /\ valAction.timeout.n >= 1000
                              /\ valAction.timeout.n <= 30000))
              /\ RetriesError \in valOut.errors
                    <=> (/\ valAction.retries.t # "undef"
                         /\ ~(/\ valAction.retries.t = "num"
                              /\ valAction.retries.n >= 0
                              /\ valAction.retries.n <= 10))

-----------------------------------------------------------------------------
(* Further properties of the executor (SpecExec) *)

\* the outcome of action i as its own requests determine it: a success
\* exactly when its last request was answered with a 2xx status
OwnOutcome(i) ==
    LET rq == ReqsOf(i)
    IN  Len(rq) > 0 /\ AxiosResolvesOn(rq[Len(rq)].status)

\* C22: an action whose type is not a supported kind gets a failed result
\* with the unsupported-type error and no HTTP request is issued for it; the
\* results of the other actions of the call are those their own requests
\* give them, and every action after it is still executed.
C22_UnsupportedTypeFailsAlone ==
    /\ \A i \in 1..Len(actions) :
          actions[i].type # "webhook" =>
              /\ ReqsOf(i) = <<>>
              /\ i <= Len(results) =>
                    /\ ~results[i].success
                    /\ results[i].error = "Unsupported action type"
    /\ \A j \in 1..Len(results) :
          /\ results[j].idx = j
          /\ results[j].success <=> OwnOutcome(j)
    /\ epc = "returned" => Len(results) = Len(actions)

\* C22 witness: a call returned whose first action has an unsupported type
\* and whose second action was executed with a request and succeeded.
C22_Witness ==
    /\ epc = "returned"
    /\ Len(actions) = 2
    /\ actions[1].type = "email"
    /\ results[1].error = "Unsupported action type"
    /\ ReqsOf(1) = <<>>
    /\ results[2].success
    /\ Len(ReqsOf(2)) = 1

\* The executor when every request is answered, by a response or by the
\* timeout of the attempt, and every timer of setTimeout expires: the step
\* that is enabled is eventually taken.
SpecExecFair == SpecExec /\ WF_vars(NextExec)

\* C30: no action is attempted more often than its maxRetries, and the call
\* of executeActions ends: it returns with every action finished, as a
\* success or as a failure.
C30_BoundedAttemptsAndTermination ==
    /\ [](\A i \in 1..Len(actions) : Len(ReqsOf(i)) <= RetriesOf(actions[i]))
    /\ <>(/\ epc = "returned"
          /\ Len(results) = Len(actions)
          /\ \A i \in 1..Len(results) : results[i].success \in BOOLEAN)

\* C30 witness: a call returned in which an action allowed one attempt was
\* attempted once, was answered 500 and is finished as a failure.
C30_Witness ==
    /\ epc = "returned"
    /\ \E i \in 1..Len(actions) :
          /\ actions[i].type = "webhook"
          /\ RetriesOf(actions[i]) = 1
          /\ Len(ReqsOf(i)) = 1
          /\ ReqsOf(i)[1].status = 500
          /\ ~results[i].success

-----------------------------------------------------------------------------
(* POST /rules/test-condition: RuleController.testCondition with
   testConditionSyntax, createTestCondition and extractVariables
   (logController.js lines 533-551, evaluator.js lines 223-281) *)

\* testConditionSyntax(condition) (lines 223-230)
testConditionSyntax(c) ==
    LET err == validateCondition(c)
    IN  [valid |-> err = NoError, error |-> err]

\* extractVars(obj) of extractVariables (lines 238-250), on an acyclic
\* condition: the first element of the array under a key "var" is added;
\* any other array is walked, any other object is descended into; a string
\* under "var" is neither.
RECURSIVE extractVars(_, _)
RECURSIVE ExtractEntries(_, _, _)
ExtractEntries(h, es, i) ==
    IF i > Len(es) THEN {}
    ELSE LET key == es[i].k
             value == es[i].v
         IN  (IF key = "var" /\ IsArray(h, value) /\ Len(h[value.n].e) > 0
              THEN {h[value.n].e[1].v}
              ELSE IF IsArray(h, value)
              THEN UNION {extractVars(h, h[value.n].e[k].v) :
                             k \in 1..Len(h[value.n].e)}
              ELSE IF value.t = "ref"
              THEN extractVars(h, value)
              ELSE {})
             \cup ExtractEntries(h, es, i + 1)

extractVars(h, obj) ==
    IF obj.t # "ref" THEN {} ELSE ExtractEntries(h, h[obj.n].e, 1)

\* extractVariables(condition) (lines 235-254): the names collected
extractVariables(c) ==
    {v.s : v \in {w \in extractVars(c.heap, c.root) : w.t = "str"}}

\* mockData of createTestCondition (lines 262-267):
\* mockData[varName] = testData[varName] || null
MockData(variables, testData) ==
    [isObj |-> TRUE,
     f |-> [name \in variables |->
              IF name \in DOMAIN testData.f /\ JsBoolean(testData.f[name])
              THEN testData.f[name] ELSE V_null]]

\* createTestCondition(condition, testData) (lines 259-281)
createTestCondition(c, testData) ==
    LET variables == extractVariables(c)
    IN  [variables |-> variables,
         result |-> evaluateRule(c, MockData(variables, testData)).value]

\* const result = evaluator.testConditionSyntax(condition)
\* (logController.js line 537) and the test of line 539
TestConditionSyntax ==
    /\ synPc = "syntax"
    /\ synResult' = testConditionSyntax(Conditions[synCondition])
    /\ synPc' = IF synResult'.valid /\ synTestData # <<>> THEN "test" ELSE "respond"
    /\ UNCHANGED <<synCondition, synTestData, synTest>>
    /\ UNCHANGED <<execVars, evalVars, schedVars, fireVars, cronVars, ctlVars, valVars, raceVars, runVars,
                   nameVars, bulkVars>>

\* result.testResult = evaluator.createTestCondition(condition, testData)
\* (logController.js lines 540-541)
CreateTestCondition ==
    /\ synPc = "test"
    /\ synTest' = <<createTestCondition(Conditions[synCondition], synTestData[1])>>
    /\ synPc' = "respond"
    /\ UNCHANGED <<synCondition, synTestData, synResult>>
    /\ UNCHANGED <<execVars, evalVars, schedVars, fireVars, cronVars, ctlVars, valVars, raceVars, runVars,
                   nameVars, bulkVars>>

\* res.json({success: true, data: result}) (lines 544-547)
TestConditionRespond ==
    /\ synPc = "respond"
    /\ synPc' = "done"
    /\ UNCHANGED <<synCondition, synTestData, synResult, synTest>>
    /\ UNCHANGED <<execVars, evalVars, schedVars, fireVars, cronVars, ctlVars, valVars, raceVars, runVars,
                   nameVars, bulkVars>>

\* req.body.testData: absent, or an object
TestDataBodies == {<<>>} \cup {<<d>> : d \in {r \in DataRecords : r.isObj}}

InitSyntax ==
    /\ synCondition \in JsonConditionNames
    /\ synTestData \in TestDataBodies
    /\ synPc = "syntax"
    /\ synResult = [valid |-> FALSE, error |-> ""]
    /\ synTest = <<>>
    /\ IdleExec
    /\ IdleEval
    /\ IdleStore
    /\ IdleSched
    /\ IdleFire
    /\ IdleCron
    /\ IdleCtl
    /\ IdleVal
    /\ IdleRace
    /\ IdleRun
    /\ IdleNames
    /\ IdleBulk

NextSyntax ==
    \/ TestConditionSyntax
    \/ CreateTestCondition
    \/ TestConditionRespond

SpecSyntax == InitSyntax /\ [][NextSyntax]_vars

-----------------------------------------------------------------------------
(* Properties of condition validation and variable extraction (SpecSyntax) *)

\* the objects and arrays of a condition
NodesOf(c) ==
    IF c.root.t # "ref" THEN {}
    ELSE ReachableFrom(c.heap, {c.root.n}, {c.root.n})

\* the number of arguments an operator is applied to: the elements of the
\* array, or the one value given in place of an array
ArgCount(h, value) == IF IsArray(h, value) THEN Len(h[value.n].e) ELSE 1

\* the only argument of an operator applied to one argument
OnlyArg(h, value) == IF IsArray(h, value) THEN h[value.n].e[1].v ELSE value

\* the argument contract of the recognized operators does not hold for the
\* entry key: value
BreaksContract(h, key, value) ==
    \/ key \in {"==", "===", "!=", "!==", "<", "<=", ">", ">="}
       /\ ArgCount(h, value) # 2
    \/ key \in {"and", "or"} /\ ArgCount(h, value) < 2
    \/ key = "not" /\ ArgCount(h, value) # 1
    \/ key = "var"
       /\ ~(ArgCount(h, value) = 1 /\ OnlyArg(h, value).t = "str")

\* some operator node of the condition, at any depth, breaks the contract
BreaksContractSomewhere(c) ==
    \E j \in NodesOf(c) :
        /\ c.heap[j].t = "obj"
        /\ \E i \in 1..Len(c.heap[j].e) :
              BreaksContract(c.heap, c.heap[j].e[i].k, c.heap[j].e[i].v)

\* C23 (as claimed): a condition in which some recognized operator node, at
\* any depth, breaks its argument contract is rejected by validateCondition.
C23_ContractCheckedAtAnyDepth ==
    synPc # "syntax" =>
        (BreaksContractSomewhere(Conditions[synCondition]) => ~synResult.valid)

\* the paths the variable-lookup nodes of a condition refer to, in either
\* form: {"var": "amount"} or {"var": ["amount"]}
ReferencedPaths(c) ==
    {OnlyArg(c.heap, c.heap[j].e[i].v).s :
        <<j, i>> \in {p \in NodesOf(c) \X (1..2) :
                        /\ c.heap[p[1]].t = "obj"
                        /\ p[2] <= Len(c.heap[p[1]].e)
                        /\ c.heap[p[1]].e[p[2]].k = "var"
                        /\ ArgCount(c.heap, c.heap[p[1]].e[p[2]].v) = 1
                        /\ OnlyArg(c.heap, c.heap[p[1]].e[p[2]].v).t = "str"}}

\* C24 (as claimed): the variables createTestCondition reports, those of
\* extractVariables, are exactly the paths the variable-lookup nodes of the
\* condition refer to, in both forms of the node.
C24_EveryReferencedPath ==
    synTest # <<>> =>
        synTest[1].variables = ReferencedPaths(Conditions[synCondition])

\* C29 (as claimed): validateCondition, here called by evaluateRule, raises
\* the circular-reference error only for a condition that contains itself; a
\* condition without a cycle in which one object is referenced from two
\* places is not rejected for it.
C29_CircularOnlyOnCycle ==
    lastCall # <<>> =>
        (lastCall[1].out.error = CircularError
            => HasCycle(Conditions[lastCall[1].conditions]))

-----------------------------------------------------------------------------
(* Further properties of the evaluator (SpecEval) *)

\* the value of field name in the record evaluateRule evaluates on, null for
\* a field the record does not have
FieldOf(data, name) ==
    LET d == preprocessData(data)
    IN  IF name \in DOMAIN d THEN d[name] ELSE V_null

\* C25: evaluateRule does not throw on a lookup of a path the input record
\* lacks, the lookup yields null, {">": [{"var": "amount"}, 1000]} is true
\* exactly when amount is present and greater than 1000, and
\* {"==": [{"var": "a"}, {"var": "a"}]} is true when a is missing or null.
C25_MissingVariableIsNull ==
    lastCall # <<>> =>
        LET call == lastCall[1]
            amount == FieldOf(call.data, "amount")
        IN  /\ \A name \in {"amount", "a"} :
                  name \notin DOMAIN call.data.f
                  => VarLookup(V_str(name), preprocessData(call.data)) = V_null
            /\ call.conditions = "gt" =>
                  /\ call.out.kind = "return"
                  /\ call.out.value = (amount.t = "num" /\ amount.n > 1000)
            /\ call.conditions = "eq" =>
                  /\ call.out.kind = "return"
                  /\ FieldOf(call.data, "a").t = "null" => call.out.value = TRUE

\* C25 witness: the comparison was evaluated on a record without amount and
\* was false, after the equality of two missing lookups was true.
C25_Witness ==
    /\ Len(evalResults) = 2
    /\ "amount" \notin DOMAIN evalData.f
    /\ "a" \notin DOMAIN evalData.f
    /\ evalRules[1].conditions = "eq"
    /\ evalResults[1].matched
    /\ evalRules[2].conditions = "gt"
    /\ lastCall[1].conditions = "gt"
    /\ lastCall[1].out = [kind |-> "return", value |-> FALSE, error |-> NoError]

-----------------------------------------------------------------------------
(* Further properties of a firing (SpecFire) *)

\* C28 (as claimed): in the firing of a rule read from the store, once the
\* executor has been invoked the execution record of the firing, with the
\* match outcome and the synthesized input, has been written; when the
\* firing has ended that record has been written whatever the outcome; and
\* the executor was invoked exactly when the condition held.  (The INSERT
\* issued is taken to succeed.)
C28_RecordThenActionsIffMatched ==
    (/\ firePath = "scheduled"
     /\ insertOk
     /\ FiredRule.conditions \in JsonConditionNames)
    => LET input == generateScheduledInput(FiredRule)
           holds == HoldsOn(Conditions[FiredRule.conditions], input)
           record == WorkflowLog(FiredRule.id, holds, input)
       IN  /\ executed # <<>> => workflowLogs = <<record>>
           /\ FiringEnded =>
                 /\ workflowLogs = <<record>>
                 /\ executed = (IF holds THEN <<FiredRule.id>> ELSE <<>>)

-----------------------------------------------------------------------------
(* reload() and DELETE /rules/:id at the same time: the query of
   getScheduledRules separated into its execution by SQLite and the call of
   its callback (scheduler.js lines 76-86 and 269-277, ruleService.js lines
   282-291, logController.js lines 416-431) *)

\* SQLite runs the SELECT of a start() that is awaiting its rows
\* (ruleService.js lines 284-286): the rows are those the table holds now.
\* In which order the callbacks of this SELECT and of a statement issued by
\* another request are called is not determined by the code.
QueryRuns ==
    /\ Len(loadedRows) < starting
    /\ loadedRows' = Append(loadedRows, ScheduledRuleObjects)
    /\ UNCHANGED <<execVars, evalVars, schedVars, fireVars, cronVars, ctlVars, valVars,
                   synVars, runVars, nameVars, bulkVars>>

\* the callback of the SELECT is called: getScheduledRules resolves with the
\* rows read, the loop of loadScheduledRules schedules each of them and
\* start() sets isRunning (scheduler.js lines 78-86 and 34)
RowsDelivered ==
    /\ loadedRows # <<>>
    /\ LET st == ScheduleAll(SchedState, Head(loadedRows), 1)
       IN  /\ jobs' = st.jobs
           /\ orphans' = st.orphans
    /\ isRunning' = TRUE
    /\ starting' = starting - 1
    /\ loadedRows' = Tail(loadedRows)
    /\ lastSched' = <<>>
    /\ lastOp' = "loaded"
    /\ UNCHANGED <<store, cronEnabled>>
    /\ UNCHANGED <<execVars, evalVars, fireVars, cronVars, ctlVars, valVars, synVars,
                   runVars, nameVars, bulkVars>>

NextRace ==
    \/ Reload
    \/ QueryRuns
    \/ RowsDelivered
    \/ DeleteRuleCommit
    \/ DeleteRuleRespond

SpecRace == InitCtl /\ [][NextRace]_vars

\* C27 (as claimed): when no start() or reload() is awaiting its rows and no
\* DELETE request is awaiting its scheduler call, a rule that has been
\* deleted has no job in the job table and no timer that can fire.
C27_DeletedRuleStaysUnscheduled ==
    (/\ starting = 0
     /\ inFlight = <<>>)
    => \A id \in RuleIds : store[id] = <<>> => NeverFires(id)

-----------------------------------------------------------------------------
(* The executor on actions that validateAction accepts (SpecExec) *)

\* validateAction returns no error for the descriptor: a webhook with a url
\* whose retries key is absent or passes the test of line 244
PassesValidateAction(a) ==
    /\ a.type = "webhook"
    /\ a.hasUrl
    /\ (a.retries = <<>> \/ ~RetriesRejected(V_num(a.retries[1])))

\* C36 (as claimed): every webhook action that passes validateAction and has
\* been run by executeActions had at least one HTTP request issued for it,
\* retries = 0 included: a failed result comes only after an attempt.
C36_AtLeastOneRequest ==
    \A i \in 1..Len(results) :
        PassesValidateAction(actions[i]) => Len(ReqsOf(i)) >= 1

-----------------------------------------------------------------------------
(* Further properties of the scheduler (Spec) *)

\* C34 (as claimed): every entry of the job table refers to a started
\* timer; in particular a scheduleRule call with an invalid expression for a
\* rule id that has a running job leaves that job stored and running.
C34_EveryJobIsStarted ==
    \A id \in RuleIds : jobs[id] # <<>> => jobs[id][1].running

\* C35 (as claimed): whenever the job table is not empty, the scheduler is
\* running and scheduling is enabled by configuration.
C35_JobsOnlyWhileRunning ==
    (\E id \in RuleIds : jobs[id] # <<>>) => (isRunning /\ cronEnabled)

\* C40 (as claimed): when stop() was called while a start() was awaiting its
\* rows, then once that start() has ended too the scheduler is not running
\* and no timer is started: the stop is not lost.
C40_StopDuringStartWins ==
    lastOp = "loadedAfterStop" =>
        /\ ~isRunning
        /\ \A id \in RuleIds : StartedTimers(id) = 0

-----------------------------------------------------------------------------
(* The execution records of a firing (SpecFire) *)

\* C38 (as claimed): a scheduled firing never has more than one execution
\* record, and when it has ended it has exactly one, whichever path it took:
\* no match, match with the actions executed, or an error caught by
\* executeScheduledRule.  (The INSERT issued is taken to succeed.)
C38_OneRecordPerFiring ==
    (firePath = "scheduled" /\ insertOk) =>
        /\ Len(workflowLogs) <= 1
        /\ FiringEnded => Len(workflowLogs) = 1

-----------------------------------------------------------------------------
(* The timers of the jobs firing while the scheduler is stopped, reloaded and
   rules are unscheduled (scheduler.js lines 115-127 and 161-227, with the
   retry loop of executeWebhook) *)

\* the started timers: the one each job of the table holds, and those the
\* table no longer holds
LiveTimers ==
    {[id |-> id, held |-> TRUE] :
        id \in {i \in RuleIds : jobs[i] # <<>> /\ jobs[i][1].running}}
    \cup {[id |-> orphans[k].rule.id, held |-> FALSE] : k \in 1..Len(orphans)}

\* A started timer fires: the callback of lines 116-118 calls
\* executeScheduledRule(rule), and nothing looks at the executions of the
\* rule that have not ended.  The call runs without yielding up to
\* `await executor.executeActions` (line 187) when the rule matched, and to
\* its end when it did not.
TimerFires ==
    /\ Len(firings) < MaxFirings
    /\ \E t \in LiveTimers, matched \in BOOLEAN :
          firings' = Append(firings,
                        [id |-> t.id, held |-> t.held,
                         pc |-> IF matched THEN "awaiting" ELSE "done",
                         attempt |-> IF matched THEN 1 ELSE 0])
    /\ UNCHANGED <<execVars, evalVars, schedVars, fireVars, cronVars, ctlVars, valVars,
                   synVars, raceVars, nameVars, bulkVars>>

\* The request of the webhook of firing n is answered or times out: the
\* execution returns, or goes to its next attempt after the backoff sleep
\* (part_001 lines 89-147), and executeScheduledRule ends with it.
FiringSettles(n) ==
    /\ n <= Len(firings)
    /\ firings[n].pc = "awaiting"
    /\ \E status \in Responses :
          LET att == firings[n].attempt
              c == CatchBlock(status, att, webhookMaxRetries)
          IN  firings' = [firings EXCEPT ![n] =
                  IF ~AxiosResolvesOn(status) /\ c.kind = "continue"
                     /\ LoopTest(att + 1, webhookMaxRetries)
                  THEN [@ EXCEPT !.attempt = att + 1]
                  ELSE [@ EXCEPT !.pc = "done"]]
    /\ UNCHANGED <<execVars, evalVars, schedVars, fireVars, cronVars, ctlVars, valVars,
                   synVars, raceVars, nameVars, bulkVars>>

\* a started scheduler with a job for every rule id
InitRun ==
    /\ store = [id \in RuleIds |-> <<[schedule |-> ValidCron, isActive |-> TRUE]>>]
    /\ cronEnabled = TRUE
    /\ LET st == ScheduleAll([jobs |-> [id \in RuleIds |-> <<>>], orphans |-> <<>>],
                             getScheduledRules(store), 1)
       IN  /\ jobs = st.jobs
           /\ orphans = st.orphans
    /\ isRunning = TRUE
    /\ starting = 0
    /\ lastSched = <<>>
    /\ lastOp = ""
    /\ IdleExec
    /\ IdleEval
    /\ IdleFire
    /\ IdleCron
    /\ IdleCtl
    /\ IdleVal
    /\ IdleSyn
    /\ IdleRace
    /\ IdleRun
    /\ IdleNames
    /\ IdleBulk

NextRun ==
    \/ TimerFires
    \/ \E n \in 1..MaxFirings : FiringSettles(n)
    \/ UnscheduleRule
    \/ Stop
    \/ Reload
    \/ StartLoaded

SpecRun == InitRun /\ [][NextRun]_vars

\* every request of a firing is answered or times out, and every backoff
\* timer expires
SpecRunFair == SpecRun /\ \A n \in 1..MaxFirings : WF_vars(FiringSettles(n))

\* C31: unscheduleRule, stop() and reload() leave every execution that is in
\* flight as it is, and every execution in flight runs to its end; a firing
\* begins only from the started timer that the job table holds, never from a
\* timer that unscheduleRule, stop() or reload() has stopped and removed.
C31_InFlightRunsToCompletion ==
    /\ [][(UnscheduleRule \/ Stop \/ Reload \/ StartLoaded) => firings' = firings]_vars
    /\ [][\A n \in 1..Len(firings) :
             /\ n <= Len(firings')
             /\ firings'[n].id = firings[n].id
             /\ firings[n].pc = "done" => firings'[n] = firings[n]]_vars
    /\ [](\A n \in 1..Len(firings) : firings[n].held)
    /\ \A n \in 1..MaxFirings :
          [](n <= Len(firings) => <>(n <= Len(firings) /\ firings[n].pc = "done"))

\* C31 witness: stop() has returned, the job table is empty, and an
\* execution that began before is still awaiting its webhook.
C31_Witness ==
    /\ ~isRunning
    /\ starting = 0
    /\ \A id \in RuleIds : jobs[id] = <<>>
    /\ \E n \in 1..Len(firings) : firings[n].pc = "awaiting"

\* C37 (as claimed): at most one execution of executeScheduledRule per rule
\* id is in flight at any time.
C37_OneExecutionPerRule ==
    \A id \in RuleIds :
        Cardinality({n \in 1..Len(firings) :
                        firings[n].id = id /\ firings[n].pc = "awaiting"}) <= 1

-----------------------------------------------------------------------------
(* RuleService.createRule and updateRule called concurrently: the name
   lookup and the write are separate statements with an await between them
   (ruleService.js lines 13-63 and 134-202; table rules, part_003 lines
   51-60) *)

\* the rule names of the model
Names == {"a", "b"}

\* the contents of column name that the table can hold
NameTables ==
    {t \in [RuleIds -> {<<>>} \cup {<<n>> : n \in Names}] :
        \A i, j \in RuleIds : (i # j /\ t[i] # <<>>) => t[i] # t[j]}

\* SELECT id FROM rules WHERE name = ? finds a row (lines 18-21)
NameTaken(tbl, name) == \E id \in RuleIds : tbl[id] = <<name>>

\* SELECT id FROM rules WHERE name = ? AND id != ? finds a row (lines 140-143)
NameTakenByOther(tbl, name, id) == \E o \in RuleIds \ {id} : tbl[o] = <<name>>

\* a column name without its constraint
UniqueNotEnforced(tbl, id, name) == FALSE

\* name TEXT NOT NULL UNIQUE (part_003 line 53): the INSERT or UPDATE that
\* would give row id this name fails with SQLITE_CONSTRAINT; id 0 stands for
\* the fresh id of an INSERT
UniqueViolated(tbl, id, name) == \E o \in RuleIds \ {id} : tbl[o] = <<name>>

\* nameCalls without its k-th entry
WithoutCall(k) == SubSeq(nameCalls, 1, k - 1) \o SubSeq(nameCalls, k + 1, Len(nameCalls))

\* createRule up to its INSERT (lines 14-30): the lookup, then 409 or on
CreateRuleLookup ==
    /\ Len(nameCalls) < MaxRequests
    /\ \E name \in Names :
          IF NameTaken(names, name)
          THEN /\ nameOut' = "conflict"
               /\ UNCHANGED nameCalls
          ELSE /\ nameCalls' = Append(nameCalls, [kind |-> "create", id |-> 0, name |-> name])
               /\ nameOut' = ""
    /\ UNCHANGED names
    /\ UNCHANGED <<execVars, evalVars, schedVars, fireVars, cronVars, ctlVars, valVars,
                   synVars, raceVars, runVars, bulkVars>>

\* updateRule up to its UPDATE (lines 136-186): getRuleById, the lookup of
\* the new name when it differs from the stored one, then 409 or on
UpdateRuleLookup ==
    /\ Len(nameCalls) < MaxRequests
    /\ \E id \in RuleIds, name \in Names :
          /\ names[id] # <<>>
          /\ IF name # names[id][1] /\ NameTakenByOther(names, name, id)
             THEN /\ nameOut' = "conflict"
                  /\ UNCHANGED nameCalls
             ELSE /\ nameCalls' = Append(nameCalls,
                                         [kind |-> "update", id |-> id, name |-> name])
                  /\ nameOut' = ""
    /\ UNCHANGED names
    /\ UNCHANGED <<execVars, evalVars, schedVars, fireVars, cronVars, ctlVars, valVars,
                   synVars, raceVars, runVars, bulkVars>>

\* the INSERT of a createRule call runs (lines 30-42): the row gets a fresh
\* uuid, unless the constraint rejects the statement
InsertRuns ==
    \E k \in 1..Len(nameCalls) :
        LET call == nameCalls[k]
            free == {i \in RuleIds : names[i] = <<>>}
        IN  /\ call.kind = "create"
            /\ IF UniqueViolated(names, 0, call.name)
               THEN /\ nameOut' = "constraint"
                    /\ UNCHANGED names
               ELSE /\ free # {}
                    /\ names' = [names EXCEPT ![CHOOSE i \in free : TRUE] = <<call.name>>]
                    /\ nameOut' = "created"
            /\ nameCalls' = WithoutCall(k)
            /\ UNCHANGED <<execVars, evalVars, schedVars, fireVars, cronVars, ctlVars,
                           valVars, synVars, raceVars, runVars, bulkVars>>

\* the UPDATE of an updateRule call runs (lines 186-189)
UpdateRuns ==
    \E k \in 1..Len(nameCalls) :
        LET call == nameCalls[k]
        IN  /\ call.kind = "update"
            /\ IF UniqueViolated(names, call.id, call.name)
               THEN /\ nameOut' = "constraint"
                    /\ UNCHANGED names
               ELSE /\ names' = [names EXCEPT ![call.id] = <<call.name>>]
                    /\ nameOut' = "updated"
            /\ nameCalls' = WithoutCall(k)
            /\ UNCHANGED <<execVars, evalVars, schedVars, fireVars, cronVars, ctlVars,
                           valVars, synVars, raceVars, runVars, bulkVars>>

InitNames ==
    /\ names \in NameTables
    /\ nameCalls = <<>>
    /\ nameOut = ""
    /\ IdleStore
    /\ IdleSched
    /\ IdleExec
    /\ IdleEval
    /\ IdleFire
    /\ IdleCron
    /\ IdleCtl
    /\ IdleVal
    /\ IdleSyn
    /\ IdleRace
    /\ IdleRun
    /\ IdleBulk

NextNames ==
    \/ CreateRuleLookup
    \/ UpdateRuleLookup
    \/ InsertRuns
    \/ UpdateRuns

SpecNames == InitNames /\ [][NextNames]_vars

\* no two rows of the table have the same name
NoDuplicateNames ==
    \A i, j \in RuleIds : (i # j /\ names[i] # <<>>) => names[i] # names[j]

\* C33: under every interleaving of createRule and updateRule calls the
\* table never holds two rules with the same name, and a call that fails,
\* at its lookup or at its statement, leaves the table as it was.
C33_NamesStayUnique ==
    /\ [](NoDuplicateNames)
    /\ [][nameOut' \in {"conflict", "constraint"} => names' = names]_vars

\* C33 witness: two createRule calls for the same name both passed their
\* lookup; the INSERT of one has run, that of the other was rejected by the
\* constraint, and the name is stored once.
C33_Witness ==
    /\ nameOut = "constraint"
    /\ nameCalls = <<>>
    /\ Cardinality({i \in RuleIds : names[i] = <<"a">>}) = 1
    /\ Cardinality({i \in RuleIds : names[i] # <<>>}) = 1

-----------------------------------------------------------------------------
(* RuleService.bulkImportRules (ruleService.js lines 228-256) inside
   transaction (part_003 lines 175-197) *)

\* the batches of the model: the names of their rules
Batches == UNION {[1..n -> Names] : n \in 1..MaxBatch}

\* transaction(callback) up to the return of database.serialize (part_003
\* lines 179-195): BEGIN is queued, callback() runs up to the first await of
\* the first createRule, which queues its SELECT, and returns a pending
\* promise; the try block ends without an exception and COMMIT is queued.
BulkImportCall ==
    /\ bulkPc = "idle"
    /\ \E batch \in Batches : bulkBatch' = batch
    /\ bulkPos' = 1
    /\ bulkPc' = "lookup"
    /\ txn' = "open"
    /\ bulkBefore' = names
    /\ UNCHANGED <<execVars, evalVars, schedVars, fireVars, cronVars, ctlVars, valVars,
                   synVars, raceVars, runVars, nameVars>>

\* COMMIT runs.  It was queued behind the first SELECT; where it runs among
\* the statements issued later by the callback is up to the driver.
CommitRuns ==
    /\ txn = "open"
    /\ ~(bulkPc = "lookup" /\ bulkPos = 1)
    /\ txn' = "committed"
    /\ UNCHANGED <<bulkBatch, bulkPos, bulkPc, bulkBefore>>
    /\ UNCHANGED <<execVars, evalVars, schedVars, fireVars, cronVars, ctlVars, valVars,
                   synVars, raceVars, runVars, nameVars>>

\* the lookup of createRule for the rule at bulkPos (ruleService.js lines
\* 18-25): a name that is taken rejects the promise of the callback
BulkLookup ==
    /\ bulkPc = "lookup"
    /\ bulkPc' = IF NameTaken(names, bulkBatch[bulkPos]) THEN "failed" ELSE "insert"
    /\ UNCHANGED <<bulkBatch, bulkPos, txn, bulkBefore>>
    /\ UNCHANGED <<execVars, evalVars, schedVars, fireVars, cronVars, ctlVars, valVars,
                   synVars, raceVars, runVars, nameVars>>

\* the INSERT of createRule for the rule at bulkPos (lines 30-42), inside the
\* transaction when COMMIT has not run yet and on its own when it has; then
\* the loop goes to the next rule, or the callback returns
BulkInsert ==
    /\ bulkPc = "insert"
    /\ LET name == bulkBatch[bulkPos]
           free == {i \in RuleIds : names[i] = <<>>}
       IN  IF UniqueViolated(names, 0, name)
           THEN /\ bulkPc' = "failed"
                /\ UNCHANGED <<names, bulkPos>>
           ELSE /\ free # {}
                /\ names' = [names EXCEPT ![CHOOSE i \in free : TRUE] = <<name>>]
                /\ bulkPos' = bulkPos + 1
                /\ bulkPc' = IF bulkPos = Len(bulkBatch) THEN "resolved" ELSE "lookup"
    /\ UNCHANGED <<bulkBatch, txn, bulkBefore, nameCalls, nameOut>>
    /\ UNCHANGED <<execVars, evalVars, schedVars, fireVars, cronVars, ctlVars, valVars,
                   synVars, raceVars, runVars>>

\* The promise of transaction settles: the callback of COMMIT has resolved
\* it with the promise of the callback, which is settled too.  No ROLLBACK is
\* issued: the catch of line 191 is for an exception thrown before callback()
\* returns, and the branch of line 186 for a COMMIT that fails.
BulkImportSettles ==
    /\ txn = "committed"
    /\ bulkPc \in {"resolved", "failed"}
    /\ bulkPc' = IF bulkPc = "resolved" THEN "imported" ELSE "rejected"
    /\ UNCHANGED <<bulkBatch, bulkPos, txn, bulkBefore>>
    /\ UNCHANGED <<execVars, evalVars, schedVars, fireVars, cronVars, ctlVars, valVars,
                   synVars, raceVars, runVars, nameVars>>

InitBulk ==
    /\ names \in NameTables
    /\ nameCalls = <<>>
    /\ nameOut = ""
    /\ IdleBulk
    /\ IdleStore
    /\ IdleSched
    /\ IdleExec
    /\ IdleEval
    /\ IdleFire
    /\ IdleCron
    /\ IdleCtl
    /\ IdleVal
    /\ IdleSyn
    /\ IdleRace
    /\ IdleRun

NextBulk ==
    \/ BulkImportCall
    \/ CommitRuns
    \/ BulkLookup
    \/ BulkInsert
    \/ BulkImportSettles

SpecBulk == InitBulk /\ [][NextBulk]_vars

\* C39 (as claimed): when bulkImportRules fails, the table is as it was
\* before the call, with none of the rules of the batch added; when it
\* succeeds, every rule of the batch is stored.
C39_BulkImportAllOrNothing ==
    /\ bulkPc = "rejected" => names = bulkBefore
    /\ bulkPc = "imported" =>
          \A k \in 1..Len(bulkBatch) : NameTaken(names, bulkBatch[k])

====
